---- MODULE Spec2Model ----
(***************************************************************************)
(* Model of the transcription service of services/transcribe:              *)
(*   engine.py   model cache (_load_model), request configuration          *)
(*               (_resolve_request_config), transcribe_file                *)
(*   app.py      startup warmup thread, POST /warmup, POST /transcribe     *)
(*               with the admission gate _semaphore                        *)
(*   cleanup.py  apply_cleanup, basic_cleanup                              *)
(*                                                                         *)
(* Python values: None is the string NoneV, the empty string is "", a      *)
(* model handle is a positive number and a None handle is NoHandle.        *)
(* The process configuration is a record with the four fields the engine   *)
(* reads (config.backend, config.model_name, config.device,                *)
(* config.compute_type); it is loaded once and never written.              *)
(* TranscribeConfig (config.py) declares no backend field: the object that *)
(* load_config builds has none, its backend is Missing here, and reading   *)
(* config.backend raises AttributeError. The configuration that the tests  *)
(* put in its place (tests/test_warmup.py, mock_config) has one.           *)
(***************************************************************************)
EXTENDS Integers, Sequences, FiniteSets, TLC

(* ------------------------------------------------------------------ *)
(* Bounds of the model                                                 *)
(* ------------------------------------------------------------------ *)
\* callers of _warmup_model (the lifespan thread)
NumWarm == 1
\* concurrent POST /transcribe requests
NumReq == 2
\* concurrent POST /warmup requests
NumPost == 1
\* longest transcript text given to the cleanup pipeline
MaxLen == 3

\* POST /transcribe requests of the model of the admission gate alone
NumGateReq == 3
\* calls of _warmup_model of the model of the warmup record alone
NumWarmCalls == 3

Warms == 1 .. NumWarm
\* the requests that run next to the warmup thread and POST /warmup
SvcReqs == (NumWarm + 1) .. (NumWarm + NumReq)
Posts == (NumWarm + NumReq + 1) .. (NumWarm + NumReq + NumPost)
\* the further requests of the gate model
ExtraReqs == (NumWarm + NumReq + NumPost + 1) .. (NumWarm + NumPost + NumGateReq)
Reqs == SvcReqs \cup ExtraReqs
GateReqs == IF NumGateReq >= NumReq THEN Reqs ELSE (NumWarm + 1) .. (NumWarm + NumGateReq)
\* the further calls of _warmup_model of the warmup model
LastReq == NumWarm + NumPost + (IF NumGateReq >= NumReq THEN NumGateReq ELSE NumReq)
ExtraWarms == (LastReq + 1) .. (LastReq + NumWarmCalls - NumWarm)
WarmCalls == Warms \cup ExtraWarms
Procs == Warms \cup Reqs \cup Posts \cup ExtraWarms

(* ------------------------------------------------------------------ *)
(* Python values                                                       *)
(* ------------------------------------------------------------------ *)
NoneV == "<None>"
NoHandle == 0

\* Python truthiness of an Optional[str]: None and "" are falsy
Truthy(s) == s # NoneV /\ s # ""

\* `a or b` on Optional[str]
OrElse(a, b) == IF Truthy(a) THEN a ELSE b

\* str.lower() on the backend identifiers the model uses
Lower(s) ==
  CASE s = "Faster-Whisper" -> "faster-whisper"
    [] s = "MLX-Whisper" -> "mlx-whisper"
    [] s = "Parakeet-MLX" -> "parakeet-mlx"
    [] OTHER -> s

(* ------------------------------------------------------------------ *)
(* engine.py: the default tables and _resolve_request_config           *)
(* ------------------------------------------------------------------ *)
TableBackends == {"parakeet-mlx", "mlx-whisper", "faster-whisper"}

_DEFAULT_BACKEND_MODELS ==
  [b \in TableBackends |->
     CASE b = "parakeet-mlx" -> "mlx-community/parakeet-tdt-0.6b-v3"
       [] b = "mlx-whisper" -> "mlx-community/whisper-large-v3-turbo"
       [] b = "faster-whisper" -> "large-v3"]

_DEFAULT_BACKEND_DEVICE ==
  [b \in TableBackends |->
     CASE b = "parakeet-mlx" -> "mlx"
       [] b = "mlx-whisper" -> "mlx"
       [] b = "faster-whisper" -> "cpu"]

_DEFAULT_BACKEND_COMPUTE ==
  [b \in TableBackends |->
     CASE b = "parakeet-mlx" -> "mlx"
       [] b = "mlx-whisper" -> "mlx"
       [] b = "faster-whisper" -> "int8"]

\* dict.get(key, default)
TableGet(table, b, default) == IF b \in DOMAIN table THEN table[b] ELSE default

\* the `is None` test that guards a table lookup
OverrideIsNone(ov) == ov = NoneV

\* mutant: a backend override never re-derives the other defaults
BackendNeverSwitched(cfg, bo) == FALSE

\* the guard `backend_override and backend != config.backend.lower()`
BackendSwitched(cfg, bo) == Truthy(bo) /\ Lower(OrElse(bo, cfg.backend)) # Lower(cfg.backend)

\* one of model / device / compute type: `override or default`, then the
\* table entry of the new backend when the backend was switched and the
\* override is None
ResolveField(cfg, bo, ov, default, table) ==
  LET backend == Lower(OrElse(bo, cfg.backend))
      first == OrElse(ov, default)
  IN IF BackendSwitched(cfg, bo) /\ OverrideIsNone(ov)
       THEN TableGet(table, backend, first)
       ELSE first

\* config.backend of a configuration that has no such attribute
Missing == "<missing>"

\* reading config.backend returns
HasBackend(cfg) == cfg.backend # Missing

\* _resolve_request_config raises: config.backend is read whether a backend
\* override is given (in the guard of the switch) or not (as the default)
ResolveRaises(cfg) == ~HasBackend(cfg)

\* _resolve_request_config: <<backend, model_name, device, compute_type>>
ResolveRequestConfig(cfg, bo, mo, dv, co) ==
  << Lower(OrElse(bo, cfg.backend)),
     ResolveField(cfg, bo, mo, cfg.model_name, _DEFAULT_BACKEND_MODELS),
     ResolveField(cfg, bo, dv, cfg.device, _DEFAULT_BACKEND_DEVICE),
     ResolveField(cfg, bo, co, cfg.compute_type, _DEFAULT_BACKEND_COMPUTE) >>

\* the key _warmup_model loads: the configuration as it is, not lowered
WarmupKey(cfg) == << cfg.backend, cfg.model_name, cfg.device, cfg.compute_type >>

\* the key POST /warmup loads: only the backend can be given
PostWarmupKey(cfg, bo) ==
  << OrElse(bo, cfg.backend), cfg.model_name, cfg.device, cfg.compute_type >>

MkConfig(b, m, d, c) == [backend |-> b, model_name |-> m, device |-> d, compute_type |-> c]

\* process configurations of the service model
ServiceConfigs ==
  { MkConfig("parakeet-mlx", "mlx-community/parakeet-tdt-0.6b-v3", "mlx", "mlx"),
    MkConfig("Faster-Whisper", "large-v3", "cpu", "int8"),
    MkConfig(Missing, "large-v3", "cpu", "int8") }

\* backend form field of a POST /transcribe of the service model
ServiceBackendOverrides == {NoneV, "mlx-whisper", "bogus"}

\* backend of a POST /warmup body of the service model
PostBackendOverrides == {NoneV, "mlx-whisper"}

(* ------------------------------------------------------------------ *)
(* State of the service                                                *)
(* ------------------------------------------------------------------ *)
VARIABLES
  config,      \* engine._CONFIG / app._config: the process configuration
  cache,       \* engine._MODEL_CACHE: key -> handle
  lockHolder,  \* engine._MODEL_CACHE_LOCK: the thread holding it, 0 when free
  pc,          \* where each thread or request handler is
  key,         \* the key of each caller's _load_model call
  ret,         \* the handle _load_model returned to each caller
  exc,         \* the exception propagating in each caller
  built,       \* history: key -> number of constructions that returned a model
  wstate,      \* app._warmup_state: started, completed, error
  semValue,    \* app._semaphore: its counter
  waiters,     \* app._semaphore: the requests waiting, in arrival order
  rq,          \* per /transcribe request: inputs, files, history
  status,      \* the HTTP status answered to each request, 0 before
  rcIn,        \* inputs of a _resolve_request_config call
  rcOut,       \* its result
  clIn,        \* inputs of an apply_cleanup call
  clOut,       \* its result and the remote calls it made
  fnIn,        \* argument of a call of one of the pure helpers
  fnOut        \* what that call returned or raised

svcVars == << config, cache, lockHolder, pc, key, ret, exc, built, wstate,
              semValue, waiters, rq, status >>
rcVars == << rcIn, rcOut >>
clVars == << clIn, clOut >>
fnVars == << fnIn, fnOut >>
vars == << config, cache, lockHolder, pc, key, ret, exc, built, wstate,
           semValue, waiters, rq, status, rcIn, rcOut, clIn, clOut, fnIn, fnOut >>

NoKey == << NoneV, NoneV, NoneV, NoneV >>
NoExc == [cls |-> "none", why |-> "none"]
MkExc(c, w) == [cls |-> c, why |-> w]

\* asyncio.Semaphore(1)
SemCapacity == 1

NewRequest ==
  [ bo |-> NoneV,          \* backend form field
    model |-> NoHandle,      \* the handle transcribe_file got
    upExists |-> FALSE,      \* the uploaded copy tmp_path is on disk
    upFailed |-> FALSE,      \* its unlink raised OSError
    convPath |-> FALSE,      \* converted_path is not None
    convExists |-> FALSE,    \* the converted WAV is on disk
    convFailed |-> FALSE,    \* its unlink raised OSError
    over |-> FALSE,          \* the duration computed exceeds max_duration_s
    cand |-> 0,              \* positional call shape in use, 0 when named
    calls |-> 0,             \* calls of the backend's transcribe entry point
    entered |-> 0,           \* calls of the dispatch in progress that entered its body
    bound |-> FALSE,         \* the call in progress is one of those
    steps |-> << >> ]        \* history: the steps the request has begun

\* the calls of p are made ("idle") or never made ("off")
InitCalls(callers) ==
  /\ config \in ServiceConfigs
  /\ cache = << >>
  /\ lockHolder = 0
  /\ pc = [p \in Procs |-> IF p \in callers THEN "idle" ELSE "off"]
  /\ key = [p \in Procs |-> NoKey]
  /\ ret = [p \in Procs |-> NoHandle]
  /\ exc = [p \in Procs |-> NoExc]
  /\ built = << >>
  /\ wstate = [started |-> FALSE, completed |-> FALSE, error |-> NoneV]
  /\ semValue = SemCapacity
  /\ waiters = << >>
  /\ rq = [r \in Reqs |-> NewRequest]
  /\ status = [p \in Procs |-> 0]

\* the service at its start: the warmup thread, the requests, POST /warmup
InitService == InitCalls(Warms \cup SvcReqs \cup Posts)

\* requests alone, after a startup whose warmup thread is not modelled
InitGate == InitCalls(GateReqs)

\* _warmup_model called several times, sequentially or from threads
InitWarmup == InitCalls(WarmCalls)

IdleService ==
  /\ config \in {CHOOSE c \in ServiceConfigs : TRUE}
  /\ cache = << >>
  /\ lockHolder = 0
  /\ pc = [p \in Procs |-> "off"]
  /\ key = [p \in Procs |-> NoKey]
  /\ ret = [p \in Procs |-> NoHandle]
  /\ exc = [p \in Procs |-> NoExc]
  /\ built = << >>
  /\ wstate = [started |-> FALSE, completed |-> FALSE, error |-> NoneV]
  /\ semValue = SemCapacity
  /\ waiters = << >>
  /\ rq = [r \in Reqs |-> NewRequest]
  /\ status = [p \in Procs |-> 0]

(* ------------------------------------------------------------------ *)
(* engine.py: _load_model                                              *)
(* ------------------------------------------------------------------ *)
\* `key in _MODEL_CACHE`
InCache(k) == k \in DOMAIN cache

\* mutant: the assignment rebinds the cache to a dict of the one entry
CacheRebound(k, h) == [x \in {k} |-> h]

\* `_MODEL_CACHE[key] = model`
CacheInsert(k, h) == [x \in (DOMAIN cache) \cup {k} |-> IF x = k THEN h ELSE cache[x]]

\* mutant: a construction that raised leaves a None entry behind
CacheNoneAfterFailure(k) == CacheInsert(k, NoHandle)

\* the cache after a construction that raised: nothing is stored
CacheAfterFailure(k) == cache

\* mutant: the slow path does not wait for the lock
LockNeverWaits == TRUE

\* `with _MODEL_CACHE_LOCK:` can be entered
LockIsFree == lockHolder = 0

\* mutant: no second check under the lock
RecheckNever(k) == FALSE

\* the second `if key in _MODEL_CACHE` under the lock
RecheckHit(k) == InCache(k)

\* one more successful construction of k
Counted(k) ==
  [x \in (DOMAIN built) \cup {k} |->
     IF x = k THEN (IF k \in DOMAIN built THEN built[k] + 1 ELSE 1) ELSE built[x]]

\* the handle a successful construction of k yields: a new object, the
\* n-th model built for k
NewHandle(k) == IF k \in DOMAIN built THEN built[k] + 1 ELSE 1

\* mutant: an exception leaves the construction section with the lock held
LockKeptAfterRaise(p) == p

\* the holder of the lock after an exception has left the `with` block
LockAfterRaise(p) == 0

\* backends _load_model knows how to construct
LoadableBackends == {"parakeet-mlx", "mlx-whisper", "faster-whisper"}

\* mutant: the lookup is made under the lock
FastPathLocked == lockHolder = 0

\* the first `if key in _MODEL_CACHE` stands before the `with` block: it
\* waits for nothing
FastPathOpen == TRUE

\* fast path: lookup without the lock
LoadFast(p) ==
  /\ pc[p] = "lm_fast"
  /\ FastPathOpen
  /\ IF InCache(key[p])
       THEN /\ ret' = [ret EXCEPT ![p] = cache[key[p]]]
            /\ pc' = [pc EXCEPT ![p] = "lm_ret"]
       ELSE /\ pc' = [pc EXCEPT ![p] = "lm_lock"]
            /\ UNCHANGED ret
  /\ UNCHANGED << config, cache, lockHolder, key, exc, built, wstate,
                  semValue, waiters, rq, status >>

\* slow path: the lock is taken and the cache is checked again under it;
\* a hit returns the cached handle, a miss enters the construction section
\* with the lock held
LoadLock(p) ==
  /\ pc[p] = "lm_lock"
  /\ LockIsFree
  /\ IF RecheckHit(key[p])
       THEN /\ ret' = [ret EXCEPT ![p] = cache[key[p]]]
            /\ pc' = [pc EXCEPT ![p] = "lm_ret"]
            /\ UNCHANGED lockHolder
       ELSE /\ lockHolder' = p
            /\ pc' = [pc EXCEPT ![p] = "lm_build"]
            /\ UNCHANGED ret
  /\ UNCHANGED << config, cache, key, exc, built, wstate,
                  semValue, waiters, rq, status >>

\* mutant: any backend's construction may give None
ConstructedOrNone(k) == {NewHandle(k), NoHandle}

\* what a construction that returns gives: from_pretrained(model_name),
\* WhisperModel(...), and for mlx-whisper `load_model(model_name) if
\* callable(load_model) else None`
ConstructedHandles(k) ==
  IF k[1] = "mlx-whisper" THEN {NewHandle(k), NoHandle} ELSE {NewHandle(k)}

\* the construction returns a model, which is stored and returned; for
\* mlx-whisper the model is None when the module has no callable load_model
LoadBuildOk(p) ==
  /\ pc[p] = "lm_build"
  /\ key[p][1] \in LoadableBackends
  /\ \E h \in ConstructedHandles(key[p]) :
       /\ cache' = CacheInsert(key[p], h)
       /\ ret' = [ret EXCEPT ![p] = h]
  /\ built' = Counted(key[p])
  /\ lockHolder' = 0
  /\ pc' = [pc EXCEPT ![p] = "lm_ret"]
  /\ UNCHANGED << config, key, exc, wstate, semValue, waiters, rq, status >>

\* the construction raises: the package is not installed (RuntimeError), or
\* the constructor raises whatever it raises
LoadBuildFail(p) ==
  /\ pc[p] = "lm_build"
  /\ key[p][1] \in LoadableBackends
  /\ \E e \in {MkExc("RuntimeError", "not installed"),
               MkExc("Exception", "constructor failed"),
               MkExc("ValueError", "constructor failed")} :
       exc' = [exc EXCEPT ![p] = e]
  /\ cache' = CacheAfterFailure(key[p])
  /\ UNCHANGED built
  /\ lockHolder' = LockAfterRaise(p)
  /\ pc' = [pc EXCEPT ![p] = "lm_ret"]
  /\ UNCHANGED << config, key, ret, wstate, semValue, waiters, rq, status >>

\* no branch matches the backend: RuntimeError("Unsupported ... backend")
LoadBuildUnsupported(p) ==
  /\ pc[p] = "lm_build"
  /\ key[p][1] \notin LoadableBackends
  /\ exc' = [exc EXCEPT ![p] = MkExc("RuntimeError", "unsupported backend")]
  /\ cache' = CacheAfterFailure(key[p])
  /\ UNCHANGED built
  /\ lockHolder' = LockAfterRaise(p)
  /\ pc' = [pc EXCEPT ![p] = "lm_ret"]
  /\ UNCHANGED << config, key, ret, wstate, semValue, waiters, rq, status >>

(* ------------------------------------------------------------------ *)
(* app.py: _warmup_model (the startup thread)                          *)
(* ------------------------------------------------------------------ *)
\* the started check under _warmup_lock, then the first read of
\* config.backend, which is outside the try block: without the attribute
\* the thread ends there, started and neither completed nor failed
WarmStart(p) ==
  /\ pc[p] = "idle"
  /\ IF wstate.started
       THEN /\ pc' = [pc EXCEPT ![p] = "done"]
            /\ UNCHANGED << wstate, key, exc >>
       ELSE /\ wstate' = [wstate EXCEPT !.started = TRUE]
            /\ IF HasBackend(config)
                 THEN /\ key' = [key EXCEPT ![p] = WarmupKey(config)]
                      /\ pc' = [pc EXCEPT ![p] = "lm_fast"]
                      /\ UNCHANGED exc
                 ELSE /\ exc' = [exc EXCEPT ![p] = MkExc("AttributeError", "no backend")]
                      /\ pc' = [pc EXCEPT ![p] = "done"]
                      /\ UNCHANGED key
  /\ UNCHANGED << config, cache, lockHolder, ret, built,
                  semValue, waiters, rq, status >>

\* after _load_model: completed on return, error on any exception
WarmFinish(p) ==
  /\ pc[p] = "lm_ret"
  /\ IF exc[p] = NoExc
       THEN wstate' = [wstate EXCEPT !.completed = TRUE]
       ELSE wstate' = [wstate EXCEPT !.error = exc[p].why]
  /\ exc' = [exc EXCEPT ![p] = NoExc]
  /\ pc' = [pc EXCEPT ![p] = "done"]
  /\ UNCHANGED << config, cache, lockHolder, key, ret, built,
                  semValue, waiters, rq, status >>

\* reset_warmup_state
ResetWarmupState ==
  /\ wstate' = [started |-> FALSE, completed |-> FALSE, error |-> NoneV]
  /\ UNCHANGED << config, cache, lockHolder, pc, key, ret, exc, built,
                  semValue, waiters, rq, status >>

\* set_warmup_completed
SetWarmupCompleted ==
  /\ wstate' = [started |-> TRUE, completed |-> TRUE, error |-> NoneV]
  /\ UNCHANGED << config, cache, lockHolder, pc, key, ret, exc, built,
                  semValue, waiters, rq, status >>

\* set_warmup_error(error)
SetWarmupError(error) ==
  /\ wstate' = [started |-> TRUE, completed |-> FALSE, error |-> error]
  /\ UNCHANGED << config, cache, lockHolder, pc, key, ret, exc, built,
                  semValue, waiters, rq, status >>

\* the error strings the callers of set_warmup_error pass
TestErrors == {"Test error"}

(* ------------------------------------------------------------------ *)
(* app.py: POST /warmup                                                *)
(* ------------------------------------------------------------------ *)
\* `request.backend or config.backend` reads the configuration only when
\* the body names no backend
PostStart(p) ==
  /\ pc[p] = "idle"
  /\ \E bo \in PostBackendOverrides :
       IF Truthy(bo) \/ HasBackend(config)
         THEN LET k == PostWarmupKey(config, bo)
              IN /\ key' = [key EXCEPT ![p] = k]
                 /\ UNCHANGED exc
                 /\ IF InCache(k)
                      THEN /\ status' = [status EXCEPT ![p] = 200]
                           /\ pc' = [pc EXCEPT ![p] = "done"]
                      ELSE /\ pc' = [pc EXCEPT ![p] = "lm_fast"]
                           /\ UNCHANGED status
         ELSE /\ exc' = [exc EXCEPT ![p] = MkExc("AttributeError", "no backend")]
              /\ status' = [status EXCEPT ![p] = 500]
              /\ pc' = [pc EXCEPT ![p] = "done"]
              /\ UNCHANGED key
  /\ UNCHANGED << config, cache, lockHolder, ret, built, wstate,
                  semValue, waiters, rq >>

\* the exception of _load_model is not caught: the framework answers 500
PostFinish(p) ==
  /\ pc[p] = "lm_ret"
  /\ status' = [status EXCEPT ![p] = IF exc[p] = NoExc THEN 200 ELSE 500]
  /\ pc' = [pc EXCEPT ![p] = "done"]
  /\ UNCHANGED << config, cache, lockHolder, key, ret, exc, built, wstate,
                  semValue, waiters, rq >>

(* ------------------------------------------------------------------ *)
(* app.py: POST /transcribe (_handle_transcribe), and engine.py:       *)
(* transcribe_file, which it runs on a worker thread inside the gate.  *)
(* The handler is a coroutine of the single-threaded event loop: what  *)
(* it does between two awaits is one step. transcribe_file shares only *)
(* the model cache with other threads: what it does between two        *)
(* accesses of the cache or the backend is one step.                   *)
(* ------------------------------------------------------------------ *)
Steps(r, ss) == rq[r].steps \o ss

\* everything of the service but pc, exc, rq and status
Rest == << config, cache, lockHolder, key, ret, built, wstate, semValue, waiters >>

\* mutant: the gate admits every request at once
GateAlwaysOpen == TRUE

\* Semaphore.acquire returns at once: the counter is positive and no
\* earlier request waits
GateOpen == semValue > 0 /\ waiters = << >>

\* Path.unlink(missing_ok=True) inside try / except OSError: pass. The file
\* is gone, or the unlink raised and the file stays
UnlinkOutcomes(exists) == IF exists THEN {"removed", "oserror"} ELSE {"removed"}

\* the status of the response: ValueError is 400, any other exception 500
HttpStatus(e) ==
  IF e = NoExc THEN 200 ELSE IF e.cls = "ValueError" THEN 400 ELSE 500

\* mutant: transcribe_file is started outside the gate
HArriveNoGate(r) ==
  /\ rq' = [rq EXCEPT ![r].upExists = TRUE]
  /\ pc' = [pc EXCEPT ![r] = "resolve"]
  /\ UNCHANGED << semValue, waiters, exc, status >>

\* _handle_transcribe up to its first await, for a request that has a
\* filename: the uploaded copy is written and the gate is entered or queued for
HArriveNamed(r) ==
  /\ rq' = [rq EXCEPT ![r].upExists = TRUE,
                      ![r].steps = IF GateOpen THEN Steps(r, << "admit" >>) ELSE @]
  /\ IF GateOpen
       THEN /\ semValue' = semValue - 1
            /\ pc' = [pc EXCEPT ![r] = "resolve"]
            /\ UNCHANGED waiters
       ELSE /\ waiters' = Append(waiters, r)
            /\ pc' = [pc EXCEPT ![r] = "wait"]
            /\ UNCHANGED semValue
  /\ UNCHANGED << exc, status >>

\* tmp_path.open("wb") or shutil.copyfileobj raises OSError: the finally
\* block unlinks what was written and the framework answers 500
HArriveCopyFails(r) ==
  /\ \E left \in BOOLEAN : \E o \in UnlinkOutcomes(left) :
       rq' = [rq EXCEPT ![r].upExists = (o = "oserror"), ![r].upFailed = (o = "oserror")]
  /\ exc' = [exc EXCEPT ![r] = MkExc("OSError", "copy failed")]
  /\ status' = [status EXCEPT ![r] = 500]
  /\ pc' = [pc EXCEPT ![r] = "done"]
  /\ UNCHANGED << semValue, waiters >>

\* a request without a filename is refused before anything is created
HArriveUnnamed(r) ==
  /\ status' = [status EXCEPT ![r] = 400]
  /\ pc' = [pc EXCEPT ![r] = "done"]
  /\ UNCHANGED << rq, exc, semValue, waiters >>

HArrive(r) ==
  /\ pc[r] = "idle"
  /\ \/ HArriveNamed(r)
     \/ HArriveCopyFails(r)
     \/ HArriveUnnamed(r)
  /\ UNCHANGED << config, cache, lockHolder, key, ret, built, wstate >>

\* mutant: the waiter that came last is woken
WakeUpLast(ws) == [who |-> ws[Len(ws)], rest |-> SubSeq(ws, 1, Len(ws) - 1)]

\* Semaphore._wake_up_next: the first future of the deque of waiters
WakeUpNext(ws) == [who |-> Head(ws), rest |-> Tail(ws)]

\* a release wakes the longest-waiting request
HAdmit(r) ==
  /\ pc[r] = "wait"
  /\ semValue > 0
  /\ waiters # << >> /\ WakeUpNext(waiters).who = r
  /\ waiters' = WakeUpNext(waiters).rest
  /\ semValue' = semValue - 1
  /\ pc' = [pc EXCEPT ![r] = "resolve"]
  /\ rq' = [rq EXCEPT ![r].steps = Steps(r, << "admit" >>)]
  /\ UNCHANGED << config, cache, lockHolder, key, ret, exc, built, wstate, status >>

\* transcribe_file begins: _resolve_request_config on the backend form
\* field, then _load_model
TFResolve(r) ==
  /\ pc[r] = "resolve"
  /\ \E bo \in ServiceBackendOverrides :
       /\ rq' = [rq EXCEPT ![r].bo = bo, ![r].steps = Steps(r, << "resolve" >>)]
       /\ IF ResolveRaises(config)
            THEN /\ exc' = [exc EXCEPT ![r] = MkExc("AttributeError", "no backend")]
                 /\ pc' = [pc EXCEPT ![r] = "release"]
                 /\ UNCHANGED key
            ELSE /\ key' = [key EXCEPT ![r] =
                              ResolveRequestConfig(config, bo, NoneV, NoneV, NoneV)]
                 /\ pc' = [pc EXCEPT ![r] = "lm_fast"]
                 /\ UNCHANGED exc
  /\ UNCHANGED << config, cache, lockHolder, ret, built, wstate,
                  semValue, waiters, status >>

IsFasterWhisper(r) == key[r][1] = "faster-whisper"

\* suffixes of the uploaded copy: `Path(audio.filename).suffix or ".wav"`
UploadSuffixes == {".wav", ".mp3"}

\* the audio is made readable, for faster-whisper: the None check, the
\* import of decode_audio and the decoding
PreprocessFasterWhisper(r) ==
  \/ /\ ret[r] # NoHandle
     /\ pc' = [pc EXCEPT ![r] = "duration"]
     /\ UNCHANGED exc
  \/ /\ \E e \in IF ret[r] = NoHandle
                   THEN {MkExc("RuntimeError", "model failed to load")}
                   ELSE {MkExc("RuntimeError", "not installed"),
                         MkExc("Exception", "decode failed")} :
          exc' = [exc EXCEPT ![r] = e]
     /\ pc' = [pc EXCEPT ![r] = "release"]

\* _convert_to_wav: a .wav upload is used as it is; for anything else
\* ffmpeg writes the converted WAV, or is not found, or exits with an error
\* after it may have begun to write its output
ConvertToWav(r) ==
  \/ /\ pc' = [pc EXCEPT ![r] = "duration"]
     /\ \E suffix \in UploadSuffixes :
          rq' = [rq EXCEPT ![r].model = ret[r],
                           ![r].steps = Steps(r, << "acquire", "preprocess" >>),
                           ![r].convExists = (suffix # ".wav"),
                           ![r].convPath = (suffix # ".wav")]
     /\ UNCHANGED exc
  \/ /\ pc' = [pc EXCEPT ![r] = "release"]
     /\ exc' = [exc EXCEPT ![r] = MkExc("RuntimeError", "ffmpeg not found")]
     /\ rq' = [rq EXCEPT ![r].model = ret[r],
                         ![r].steps = Steps(r, << "acquire", "preprocess" >>)]
  \/ /\ pc' = [pc EXCEPT ![r] = "release"]
     /\ exc' = [exc EXCEPT ![r] = MkExc("RuntimeError", "conversion failed")]
     /\ \E left \in BOOLEAN :
          rq' = [rq EXCEPT ![r].model = ret[r],
                           ![r].steps = Steps(r, << "acquire", "preprocess" >>),
                           ![r].convExists = left]

\* _load_model raised: transcribe_file ends; or it returned the model and
\* the audio is preprocessed
TFPreprocess(r) ==
  /\ pc[r] = "lm_ret"
  /\ IF exc[r] # NoExc
       THEN /\ pc' = [pc EXCEPT ![r] = "release"]
            /\ UNCHANGED << rq, exc >>
       ELSE IF IsFasterWhisper(r)
         THEN /\ PreprocessFasterWhisper(r)
              /\ rq' = [rq EXCEPT ![r].model = ret[r],
                                  ![r].steps = Steps(r, << "acquire", "preprocess" >>)]
         ELSE ConvertToWav(r)
  /\ UNCHANGED << status >>
  /\ UNCHANGED Rest

\* the finally block of transcribe_file deletes the converted WAV, when
\* _convert_to_wav returned one; faster-whisper has no such block
FinallyUnlink(r, steps, over) ==
  IF rq[r].convPath
    THEN \E o \in UnlinkOutcomes(rq[r].convExists) :
           rq' = [rq EXCEPT ![r].convExists = (o = "oserror"),
                            ![r].convFailed = (o = "oserror"),
                            ![r].steps = steps, ![r].cand = 0, ![r].bound = FALSE,
                            ![r].entered = 0, ![r].over = over]
    ELSE rq' = [rq EXCEPT ![r].steps = steps, ![r].cand = 0, ![r].bound = FALSE,
                            ![r].entered = 0, ![r].over = over]

\* mutant: the comparison with max_duration_s is lost
DurationNeverRejects(over) == FALSE

\* `duration_s > config.max_duration_s` raises
DurationRejects(over) == over

\* what can go wrong between the duration check and the backend call
DispatchErrors(r) ==
  IF key[r][1] = "mlx-whisper"
    THEN {MkExc("RuntimeError", "not installed"), MkExc("RuntimeError", "no transcribe()")}
    ELSE IF key[r][1] = "parakeet-mlx"
      THEN {MkExc("RuntimeError", "no transcribe()")}
      ELSE IF IsFasterWhisper(r) THEN {} ELSE {MkExc("RuntimeError", "unsupported backend")}

\* number of positional call shapes _run_mlx_whisper tries
NumCandidates == 3

\* a call of the entry point: the arguments fit its parameters and its body
\* runs, or (a positional call shape only) they do not fit and TypeError is
\* raised before the body is entered
ShapeTaken(cand) == IF cand = 0 THEN {TRUE} ELSE BOOLEAN

\* the duration is computed and compared with config.max_duration_s; then
\* the backend's transcribe entry point is called. faster-whisper:
\* model.transcribe; parakeet-mlx: _call_transcribe, unless the model has no
\* callable transcribe; mlx-whisper: _run_mlx_whisper, by keyword when the
\* signature names an audio or model parameter, else by the first positional
\* call shape
TFDuration(r) ==
  /\ pc[r] = "duration"
  /\ \/ \E over \in BOOLEAN :
          IF DurationRejects(over)
            THEN /\ exc' = [exc EXCEPT ![r] = MkExc("ValueError", "exceeds max duration")]
                 /\ FinallyUnlink(r, Steps(r, << "duration" >>), over)
                 /\ pc' = [pc EXCEPT ![r] = "release"]
            ELSE \/ /\ \E c \in IF key[r][1] = "mlx-whisper" THEN {0, 1} ELSE {0} :
                       \E b \in ShapeTaken(c) :
                         rq' = [rq EXCEPT ![r].steps = Steps(r, << "duration", "backend" >>),
                                          ![r].calls = @ + 1, ![r].cand = c,
                                          ![r].bound = b,
                                          ![r].entered = IF b THEN @ + 1 ELSE @,
                                          ![r].over = over]
                    /\ pc' = [pc EXCEPT ![r] = "backend"]
                    /\ UNCHANGED exc
                 \/ /\ \E e \in DispatchErrors(r) : exc' = [exc EXCEPT ![r] = e]
                    /\ FinallyUnlink(r, Steps(r, << "duration" >>), over)
                    /\ pc' = [pc EXCEPT ![r] = "release"]
     \/ /\ ~IsFasterWhisper(r)
        /\ \E e \in {MkExc("ValueError", "sample rate is 0"),
                     MkExc("Exception", "wave error")} :
             exc' = [exc EXCEPT ![r] = e]
        /\ FinallyUnlink(r, Steps(r, << "duration" >>), FALSE)
        /\ pc' = [pc EXCEPT ![r] = "release"]
  /\ UNCHANGED << status >>
  /\ UNCHANGED Rest

\* apply_cleanup on the raw text: it returns, or raises ValueError for an
\* unknown mode, or the remote call of the llm mode fails
CleanupOutcomes ==
  {NoExc, MkExc("ValueError", "unknown cleanup mode"), MkExc("Exception", "llm cleanup failed")}

\* the backend call returned a result: _extract_transcript finds its text or
\* raises ValueError (faster-whisper joins the segments and accepts an empty
\* text); the finally block runs; then apply_cleanup
BackendReturns(r) ==
  /\ rq[r].bound
  /\ \/ /\ \E e \in CleanupOutcomes : exc' = [exc EXCEPT ![r] = e]
        /\ FinallyUnlink(r, Steps(r, << "cleanup" >>), rq[r].over)
     \/ /\ ~IsFasterWhisper(r)
        /\ exc' = [exc EXCEPT ![r] = MkExc("ValueError", "no text")]
        /\ FinallyUnlink(r, rq[r].steps, rq[r].over)

\* the backend call raised: the finally block runs and the exception
\* leaves transcribe_file. The body raises whatever it raises; TypeError of
\* the last positional call shape, from the body or from the binding of the
\* arguments, ends the loop, and RuntimeError is raised after it
BackendRaises(r) ==
  /\ \E e \in (IF rq[r].bound THEN {MkExc("Exception", "backend failed")} ELSE {})
               \cup (IF rq[r].cand = NumCandidates
                       THEN {MkExc("RuntimeError", "unable to call transcribe()")}
                       ELSE {}) :
       exc' = [exc EXCEPT ![r] = e]
  /\ FinallyUnlink(r, rq[r].steps, rq[r].over)

\* the backend call ends
TFBackendReturn(r) ==
  /\ pc[r] = "backend"
  /\ \/ BackendReturns(r)
     \/ BackendRaises(r)
  /\ pc' = [pc EXCEPT ![r] = "release"]
  /\ UNCHANGED << status >>
  /\ UNCHANGED Rest

\* `except TypeError: continue` catches the TypeError of a call shape that
\* does not fit and the TypeError raised by the body alike
Retried(r) == TRUE

\* a positional call shape of _run_mlx_whisper raised TypeError: the next
\* shape is called
TFNextCandidate(r) ==
  /\ pc[r] = "backend"
  /\ rq[r].cand > 0 /\ rq[r].cand < NumCandidates
  /\ Retried(r)
  /\ \E b \in ShapeTaken(rq[r].cand + 1) :
       rq' = [rq EXCEPT ![r].cand = @ + 1, ![r].calls = @ + 1, ![r].bound = b,
                        ![r].entered = IF b THEN @ + 1 ELSE @]
  /\ UNCHANGED << pc, exc, status >>
  /\ UNCHANGED Rest

\* transcribe_file has returned or raised: the exception is mapped, the
\* `async with` block is left, which releases the gate, and the outer
\* finally block deletes the uploaded copy
\* mutant: the gate is given back only when transcribe_file returned
ReleasedOnSuccess(r) == IF exc[r] = NoExc THEN semValue + 1 ELSE semValue

\* `async with _semaphore` is left, by the return or by the HTTPException
\* raised inside it: __aexit__ releases the semaphore either way
ReleasedOnExit(r) == semValue + 1

HFinish(r) ==
  /\ pc[r] = "release"
  /\ semValue' = ReleasedOnExit(r)
  /\ status' = [status EXCEPT ![r] = HttpStatus(exc[r])]
  /\ \E o \in UnlinkOutcomes(rq[r].upExists) :
       rq' = [rq EXCEPT ![r].upExists = (o = "oserror"),
                        ![r].upFailed = (o = "oserror"),
                        ![r].steps = Steps(r, << "release" >>)]
  /\ pc' = [pc EXCEPT ![r] = "done"]
  /\ UNCHANGED << config, cache, lockHolder, key, ret, exc, built, wstate, waiters >>

(* ------------------------------------------------------------------ *)
(* The service                                                         *)
(* ------------------------------------------------------------------ *)
LoadModel(p) ==
  \/ LoadFast(p)
  \/ LoadLock(p)
  \/ LoadBuildOk(p)
  \/ LoadBuildFail(p)
  \/ LoadBuildUnsupported(p)

\* a call has returned: its locals and its response are gone
Close(p) ==
  /\ pc[p] = "done"
  /\ pc' = [pc EXCEPT ![p] = "closed"]
  /\ key' = [key EXCEPT ![p] = NoKey]
  /\ ret' = [ret EXCEPT ![p] = NoHandle]
  /\ exc' = [exc EXCEPT ![p] = NoExc]
  /\ status' = [status EXCEPT ![p] = 0]
  /\ rq' = [r \in Reqs |-> IF r = p THEN NewRequest ELSE rq[r]]
  /\ UNCHANGED << config, cache, lockHolder, built, wstate, semValue, waiters >>

Warmup(p) == WarmStart(p) \/ WarmFinish(p)

PostWarmup(p) == PostStart(p) \/ PostFinish(p)

Transcribe(r) ==
  \/ HArrive(r)
  \/ HAdmit(r)
  \/ TFResolve(r)
  \/ TFPreprocess(r)
  \/ TFDuration(r)
  \/ TFBackendReturn(r)
  \/ TFNextCandidate(r)
  \/ HFinish(r)

\* A finished call is closed before the next step is taken: closing
\* touches only the call's own locals, so it commutes with every other step
NoneDone == \A p \in Procs : pc[p] # "done"

NextService ==
  \/ NoneDone /\ \E p \in Procs : LoadModel(p)
  \/ NoneDone /\ \E p \in Warms : Warmup(p)
  \/ NoneDone /\ \E p \in Posts : PostWarmup(p)
  \/ NoneDone /\ \E r \in Reqs : Transcribe(r)
  \/ \E p \in Procs : Close(p)

(* ------------------------------------------------------------------ *)
(* _resolve_request_config as a function of its inputs                 *)
(* ------------------------------------------------------------------ *)
ResolveConfigs ==
  { MkConfig("parakeet-mlx", "mlx-community/parakeet-tdt-0.6b-v3", "mlx", "mlx"),
    MkConfig("faster-whisper", "large-v3", "cpu", "int8"),
    MkConfig("Faster-Whisper", "large-v3", "cpu", "int8"),
    MkConfig("mlx-whisper", "my-whisper", "gpu", "float32"),
    MkConfig(Missing, "large-v3", "cpu", "int8") }

\* an override: absent (None), the empty string, or a name
BackendInputs == {NoneV, "", "parakeet-mlx", "mlx-whisper", "faster-whisper",
                  "MLX-Whisper", "bogus"}
ModelInputs == {NoneV, "", "my-model"}
DeviceInputs == {NoneV, "", "cuda"}
ComputeInputs == {NoneV, "", "float16"}

RcIdle == [cfg |-> MkConfig(NoneV, NoneV, NoneV, NoneV),
           bo |-> NoneV, mo |-> NoneV, dv |-> NoneV, co |-> NoneV]
RcNone == [done |-> FALSE, raised |-> FALSE, key |-> NoKey]

InitResolve ==
  /\ rcIn \in [cfg : ResolveConfigs, bo : BackendInputs, mo : ModelInputs,
               dv : DeviceInputs, co : ComputeInputs]
  /\ rcOut = RcNone

Resolve ==
  /\ ~rcOut.done
  /\ rcOut' = IF ResolveRaises(rcIn.cfg)
                THEN [done |-> TRUE, raised |-> TRUE, key |-> NoKey]
                ELSE [done |-> TRUE, raised |-> FALSE,
                      key |-> ResolveRequestConfig(rcIn.cfg, rcIn.bo, rcIn.mo,
                                                   rcIn.dv, rcIn.co)]
  /\ UNCHANGED rcIn

(* ------------------------------------------------------------------ *)
(* cleanup.py: apply_cleanup. A text is a sequence of characters.      *)
(* ------------------------------------------------------------------ *)
Chars == {" ", "\n", ",", "a"}
Whitespace == {" ", "\n", "\r"}
Punctuation == {",", ".", ";", ":", "!", "?"}

RECURSIVE TextsOfLen(_)
TextsOfLen(n) ==
  IF n = 0 THEN {<< >>}
  ELSE {Append(t, c) : t \in TextsOfLen(n - 1), c \in Chars}

Texts == UNION {TextsOfLen(n) : n \in 0 .. MaxLen}

\* str.strip(): whitespace removed at both ends
RECURSIVE LStrip(_)
LStrip(t) == IF t # << >> /\ Head(t) \in Whitespace THEN LStrip(Tail(t)) ELSE t

RECURSIVE RStrip(_)
RStrip(t) ==
  IF t # << >> /\ t[Len(t)] \in Whitespace THEN RStrip(SubSeq(t, 1, Len(t) - 1)) ELSE t

Strip(t) == RStrip(LStrip(t))

\* _WHITESPACE_RE.sub(" ", t): every maximal run of whitespace becomes " "
RECURSIVE CollapseWhitespace(_)
CollapseWhitespace(t) ==
  IF t = << >> THEN << >>
  ELSE IF Head(t) \in Whitespace
    THEN << " " >> \o CollapseWhitespace(LStrip(t))
    ELSE << Head(t) >> \o CollapseWhitespace(Tail(t))

\* mutant: whitespace before punctuation is kept
KeepSpaceBeforePunct(t) == t

\* _SPACE_BEFORE_PUNCT_RE.sub(r"\1", t): a run of whitespace that ends at a
\* punctuation mark is removed
RECURSIVE DropSpaceBeforePunct(_)
DropSpaceBeforePunct(t) ==
  IF t = << >> THEN << >>
  ELSE IF Head(t) \in Whitespace
    THEN LET rest == LStrip(t)
         IN IF rest # << >> /\ Head(rest) \in Punctuation
              THEN << Head(rest) >> \o DropSpaceBeforePunct(Tail(rest))
              ELSE SubSeq(t, 1, Len(t) - Len(rest)) \o DropSpaceBeforePunct(rest)
    ELSE << Head(t) >> \o DropSpaceBeforePunct(Tail(t))

\* basic_cleanup
BasicCleanup(t) == DropSpaceBeforePunct(CollapseWhitespace(Strip(t)))

\* texts given to basic_cleanup alone
MaxBasicLen == 5
BasicTexts == UNION {TextsOfLen(n) : n \in 0 .. MaxBasicLen}

InitBasic ==
  /\ fnIn \in [text : BasicTexts]
  /\ fnOut = [done |-> FALSE, once |-> << >>, twice |-> << >>]

\* basic_cleanup(text), and basic_cleanup of what it returned
BasicTwice ==
  /\ ~fnOut.done
  /\ LET once == BasicCleanup(fnIn.text)
     IN fnOut' = [done |-> TRUE, once |-> once, twice |-> BasicCleanup(once)]
  /\ UNCHANGED fnIn

\* the mode names a caller or the configuration may give
ModeInputs == {NoneV, "", " ", "none", " None ", "basic", "BASIC", "llm", "fancy"}
ConfigModes == {"basic", "none", "llm", "", "fancy"}

\* str.strip().lower() on the mode names
NormalizeMode(m) ==
  CASE m = " None " -> "none"
    [] m = "BASIC" -> "basic"
    [] m = " " -> ""
    [] OTHER -> m

\* `(mode or config.cleanup_mode or "basic").strip().lower()`
SelectedMode(mode, cfgMode) == NormalizeMode(OrElse(mode, OrElse(cfgMode, "basic")))

(* ------------------------------------------------------------------ *)
(* cleanup.py: what llm_cleanup makes of the message content           *)
(* (_extract_json_text, _strip_llm_wrapper). A content is a sequence   *)
(* of tokens: a character, or a whole lexical unit of JSON or prose.   *)
(*   "{" "}"     braces                                               *)
(*   "t=..."     an object member "text": <value>                      *)
(*   "k"         an object member with another key                     *)
(*   "5"         a JSON number                                         *)
(*   "x"         a letter of prose                                     *)
(*   "P"         a preamble phrase that _PREAMBLE_RE matches           *)
(*   " " "\n" "\r"   whitespace; "\"" "'" quote characters             *)
(* ------------------------------------------------------------------ *)
TextMembers == {"t=", "t= a", "t=null", "t=5"}
Members == TextMembers \cup {"k"}
AllTokens == Members \cup {"{", "}", "5", "x", "P", " ", "\n", "\r", "\"", "'"}

\* the Python value of a "text" member: a str, None or a number
MemberValue(m) ==
  CASE m = "t=" -> [kind |-> "str", text |-> << >>]
    [] m = "t= a" -> [kind |-> "str", text |-> << " ", "a" >>]
    [] m = "t=null" -> [kind |-> "null", text |-> << >>]
    [] m = "t=5" -> [kind |-> "num", text |-> << "5" >>]

\* the tokens of t that satisfy keep, in order
RECURSIVE Filter(_, _)
Filter(t, keep) ==
  IF t = << >> THEN << >>
  ELSE (IF Head(t) \in keep THEN << Head(t) >> ELSE << >>) \o Filter(Tail(t), keep)

NotJson == [ok |-> FALSE, dict |-> FALSE, hasText |-> FALSE,
            value |-> [kind |-> "null", text |-> << >>]]

\* json.loads(candidate): whitespace around and between the lexical units is
\* skipped; an object is "{" members "}", and the last of several "text"
\* members gives the value; a number is a document of its own; anything
\* else raises JSONDecodeError
JsonLoads(candidate) ==
  LET c == Strip(candidate)
      inner == Filter(SubSeq(c, 2, Len(c) - 1), AllTokens \ Whitespace)
      texts == Filter(inner, TextMembers)
  IN IF c = << "5" >>
       THEN [NotJson EXCEPT !.ok = TRUE]
       ELSE IF /\ Len(c) >= 2 /\ c[1] = "{" /\ c[Len(c)] = "}"
               /\ \A i \in 1 .. Len(inner) : inner[i] \in Members
         THEN [ok |-> TRUE, dict |-> TRUE, hasText |-> texts # << >>,
               value |-> IF texts # << >> THEN MemberValue(texts[Len(texts)])
                         ELSE NotJson.value]
         ELSE NotJson

\* _JSON_BLOCK_RE.search(content): from the first "{" to the last "}" after
\* it, the empty sequence when there is none
JsonBlock(content) ==
  LET opens == {i \in 1 .. Len(content) : content[i] = "{"}
      closes == {i \in 1 .. Len(content) : content[i] = "}"}
  IN IF opens = {} THEN << >>
     ELSE LET first == CHOOSE i \in opens : \A j \in opens : i <= j
              after == {j \in closes : j > first}
          IN IF after = {} THEN << >>
             ELSE SubSeq(content, first, CHOOSE j \in after : \A k \in after : k <= j)

\* `if value is None: return ""`, else `str(value).strip()`
TextOfValue(value) == IF value.kind = "null" THEN << >> ELSE Strip(value.text)

\* mutant: an empty text value counts as no text
TakesNonEmptyText(candidate) ==
  /\ candidate # << >>
  /\ JsonLoads(candidate).dict /\ JsonLoads(candidate).hasText
  /\ TextOfValue(JsonLoads(candidate).value) # << >>

\* a candidate is taken: it is not empty, it parses, and it is a dict with a
\* "text" key
TakesCandidate(candidate) ==
  /\ candidate # << >>
  /\ JsonLoads(candidate).dict /\ JsonLoads(candidate).hasText

\* _extract_json_text: the text of the first candidate taken, of the whole
\* content and of the brace span; found is FALSE for None
ExtractJsonText(content) ==
  LET block == JsonBlock(content)
  IN IF TakesCandidate(content)
       THEN [found |-> TRUE, tier |-> 1, text |-> TextOfValue(JsonLoads(content).value)]
       ELSE IF TakesCandidate(block)
         THEN [found |-> TRUE, tier |-> 2, text |-> TextOfValue(JsonLoads(block).value)]
         ELSE [found |-> FALSE, tier |-> 0, text |-> << >>]

Newline == "\n"
\* the line boundaries of str.splitlines() among the tokens: \n, \r, \r\n
LineBreaks == {"\n", "\r"}
Quotes == {"\"", "'"}
\* tokens that are word characters at their edges, for the \b of _PREAMBLE_RE
WordTokens == {"x", "P", "5"}

\* str.splitlines(): the lines without their boundaries; \r\n is one boundary
RECURSIVE SplitLines(_)
SplitLines(t) ==
  IF t = << >> THEN << >>
  ELSE IF \E i \in 1 .. Len(t) : t[i] \in LineBreaks
    THEN LET i == CHOOSE j \in 1 .. Len(t) :
                    t[j] \in LineBreaks /\ \A k \in 1 .. (j - 1) : t[k] \notin LineBreaks
             next == IF t[i] = "\r" /\ i < Len(t) /\ t[i + 1] = "\n" THEN i + 2 ELSE i + 1
         IN << SubSeq(t, 1, i - 1) >> \o SplitLines(SubSeq(t, next, Len(t)))
    ELSE << t >>

\* "\n".join(lines)
RECURSIVE JoinLines(_)
JoinLines(lines) ==
  IF lines = << >> THEN << >>
  ELSE IF Len(lines) = 1 THEN lines[1]
  ELSE lines[1] \o << Newline >> \o JoinLines(Tail(lines))

\* _PREAMBLE_RE.match(head): the line begins with a preamble phrase that
\* ends at a word boundary
IsPreamble(head) ==
  /\ head # << >> /\ head[1] = "P"
  /\ Len(head) >= 2 => head[2] \notin WordTokens

\* the while loop: blank lines and preamble lines are popped from the front
RECURSIVE PopPreamble(_)
PopPreamble(lines) ==
  IF lines = << >> THEN [lines |-> << >>, removed |-> FALSE]
  ELSE LET head == Strip(lines[1])
       IN IF head = << >> \/ IsPreamble(head)
            THEN [lines |-> PopPreamble(Tail(lines)).lines, removed |-> TRUE]
            ELSE [lines |-> lines, removed |-> FALSE]

\* the outer quote pair goes when a line was popped, the text is wrapped in
\* one quote character and that character is not inside
Unquote(cleaned, removed) ==
  IF /\ removed /\ Len(cleaned) >= 2
     /\ cleaned[1] = cleaned[Len(cleaned)] /\ cleaned[1] \in Quotes
    THEN LET inner == Strip(SubSeq(cleaned, 2, Len(cleaned) - 1))
         IN IF \E i \in 1 .. Len(inner) : inner[i] = cleaned[1] THEN cleaned ELSE inner
    ELSE cleaned

\* _strip_llm_wrapper
StripLlmWrapper(content) ==
  LET popped == PopPreamble(SplitLines(Strip(content)))
  IN Unquote(Strip(JoinLines(popped.lines)), popped.removed)

NoResponse == [kind |-> "none", content |-> << >>]

\* mutant: only an absent content is refused
ContentAbsent(response) == response.kind = "no_content"

\* `if not content`: the content is absent (None) or the empty string
ContentMissing(response) ==
  response.kind = "no_content" \/ (response.kind = "content" /\ response.content = << >>)

\* llm_cleanup from the message content on: an empty or absent content
\* raises; else the JSON text when _extract_json_text finds one, else
\* _strip_llm_wrapper
LlmContentResult(content) ==
  IF ContentMissing([kind |-> "content", content |-> content])
    THEN [raised |-> "RuntimeError", tier |-> 0, text |-> << >>]
    ELSE LET cleaned == Strip(content)
             extracted == ExtractJsonText(cleaned)
         IN IF extracted.found
              THEN [raised |-> "none", tier |-> extracted.tier, text |-> extracted.text]
              ELSE [raised |-> "none", tier |-> 3, text |-> StripLlmWrapper(cleaned)]

\* message contents of the JSON tiers
MaxContentLen == 4
JsonTokens == {"{", "}", "x", " ", "5", "k"} \cup TextMembers

\* the sequences of n tokens of S
SeqsOfLen(S, n) == [1 .. n -> S]

JsonContents == UNION {SeqsOfLen(JsonTokens, n) : n \in 0 .. MaxContentLen}

\* message contents of the preamble tier: prose, lines, preamble phrases, quotes
MaxWrapLen == 5
WrapTokens == {"x", " ", "\n", "\r", "P", "\"", "'"}
WrapContents == UNION {SeqsOfLen(WrapTokens, n) : n \in 0 .. MaxWrapLen}

FnNone == [done |-> FALSE, raised |-> "none", tier |-> 0, text |-> << >>]

InitExtract ==
  /\ fnIn \in [content : JsonContents \cup WrapContents]
  /\ fnOut = FnNone

LlmContent ==
  /\ ~fnOut.done
  /\ LET r == LlmContentResult(fnIn.content)
     IN fnOut' = [done |-> TRUE, raised |-> r.raised, tier |-> r.tier, text |-> r.text]
  /\ UNCHANGED fnIn

(* ------------------------------------------------------------------ *)
(* cleanup.py: llm_cleanup and apply_cleanup                           *)
(* ------------------------------------------------------------------ *)
\* what the remote endpoint of llm_cleanup answers: the call times out, the
\* connection fails, the status is not 2xx, the body is not JSON, the body
\* has no (or an empty) choices list, the first choice has no message or the
\* message no content, or the message has a content string
RemoteKinds == {"timeout", "refused", "http_error", "bad_body", "no_choices",
                "no_content", "content"}

\* the content strings of the responses
ResponseContents ==
  {<< >>, << " " >>, << "x" >>, << "P" >>, << "{", "t= a", "}" >>, << "{", "t=", "}" >>}

Responses ==
  {[kind |-> k, content |-> << >>] : k \in RemoteKinds \ {"content"}}
    \cup {[kind |-> "content", content |-> c] : c \in ResponseContents}

\* llm_cleanup: urlopen raises for a timeout, a failed connection and a
\* status outside 2xx, json.loads for a body that is not JSON; then the
\* checks of choices and content, then the extraction of the text
LlmCleanup(response) ==
  CASE response.kind = "timeout" -> [raised |-> "TimeoutError", text |-> << >>]
    [] response.kind = "refused" -> [raised |-> "URLError", text |-> << >>]
    [] response.kind = "http_error" -> [raised |-> "HTTPError", text |-> << >>]
    [] response.kind = "bad_body" -> [raised |-> "JSONDecodeError", text |-> << >>]
    [] response.kind = "no_choices" -> [raised |-> "RuntimeError", text |-> << >>]
    [] OTHER ->
         IF ContentMissing(response)
           THEN [raised |-> "RuntimeError", text |-> << >>]
           ELSE [raised |-> LlmContentResult(response.content).raised,
                 text |-> LlmContentResult(response.content).text]

\* mutant: the none mode strips the text
NoneModeStrips(text) == Strip(text)

\* the text the none mode returns
NoneModeResult(text) == text

\* the mode names apply_cleanup has a branch for
KnownModes == {"none", "basic", "llm"}

\* mutant: an unknown mode falls back to the basic cleanup
UnknownModeIsBasic(text) == {[raised |-> "none", text |-> BasicCleanup(text), remote |-> 0]}

\* no branch matched: `raise ValueError(f"Unknown cleanup mode: {selected}")`
UnknownModeOutcomes(text) == {[raised |-> "ValueError", text |-> << >>, remote |-> 0]}

\* apply_cleanup: the result, the exception raised, the remote calls made
ApplyCleanupOutcomes(text, mode, cfgMode, response) ==
  LET selected == SelectedMode(mode, cfgMode)
  IN CASE selected = "none" ->
            {[raised |-> "none", text |-> NoneModeResult(text), remote |-> 0]}
       [] selected = "basic" ->
            {[raised |-> "none", text |-> BasicCleanup(text), remote |-> 0]}
       [] selected = "llm" ->
            {[raised |-> LlmCleanup(response).raised, text |-> LlmCleanup(response).text,
              remote |-> 1]}
       [] OTHER -> UnknownModeOutcomes(text)

ClIdle == [text |-> << >>, mode |-> NoneV, cfgMode |-> NoneV, response |-> NoResponse]
ClNone == [done |-> FALSE, raised |-> "none", text |-> << >>, remote |-> 0,
           envelope |-> FALSE, cleanup_mode |-> NoneV]

\* transcribe_file builds and returns its result dict after apply_cleanup has
\* returned; an exception of apply_cleanup leaves transcribe_file
ResultBuilt(o) == o.raised = "none"

\* the cleanup_mode entry of the result: `cleanup_mode or config.cleanup_mode`
ReportedMode(mode, cfgMode) == OrElse(mode, cfgMode)

InitCleanup ==
  /\ clIn \in [text : Texts, mode : ModeInputs, cfgMode : ConfigModes, response : Responses]
  /\ clOut = ClNone

ApplyCleanup ==
  /\ ~clOut.done
  /\ \E o \in ApplyCleanupOutcomes(clIn.text, clIn.mode, clIn.cfgMode, clIn.response) :
       clOut' = [done |-> TRUE, raised |-> o.raised, text |-> o.text, remote |-> o.remote,
                 envelope |-> ResultBuilt(o),
                 cleanup_mode |-> IF ResultBuilt(o)
                                    THEN ReportedMode(clIn.mode, clIn.cfgMode)
                                    ELSE NoneV]
  /\ UNCHANGED clIn

(* ------------------------------------------------------------------ *)
(* engine.py: _extract_transcript                                      *)
(* ------------------------------------------------------------------ *)
\* the values of a field (a key of a mapping, an attribute of an object):
\* absent or None, the empty string, a blank, a word
FieldValues == {NoneV, "", " ", "hi"}
LanguageValues == {NoneV, "", "en"}
SegmentValues == {NoneV, "segs"}

\* backend results: a plain string, a mapping, an object with attributes
StrResults ==
  {[shape |-> "str", text |-> t, transcript |-> NoneV, utterance |-> NoneV,
    language |-> NoneV, lang |-> NoneV, segments |-> NoneV, timestamps |-> NoneV,
    chunks |-> NoneV] : t \in FieldValues \ {NoneV}}

ShapedResults ==
  [shape : {"dict", "obj"}, text : FieldValues, transcript : FieldValues,
   utterance : FieldValues, language : LanguageValues, lang : LanguageValues,
   segments : SegmentValues, timestamps : SegmentValues, chunks : SegmentValues]

BackendResults == StrResults \cup ShapedResults

\* `str(language) if language else None`
StrOrNone(v) == IF Truthy(v) THEN v ELSE NoneV

\* the tuple (text, language, segments) that is returned
Returned(text, language, segments) ==
  [raised |-> "none", text |-> text, language |-> language, segments |-> segments]

\* `raise ValueError("Transcription model returned no text")`
NoText == [raised |-> "ValueError", text |-> "", language |-> NoneV, segments |-> NoneV]

\* `if isinstance(result, str): return result, None, None`
StrReturned(result) == result.shape = "str"

\* _extract_transcript
ExtractTranscript(result) ==
  IF StrReturned(result)
    THEN Returned(result.text, NoneV, NoneV)
    ELSE IF result.shape = "dict"
      THEN LET text == OrElse(result.text, OrElse(result.transcript, result.utterance))
               language == OrElse(result.language, result.lang)
               segments == OrElse(result.segments, OrElse(result.timestamps, result.chunks))
           IN IF Truthy(text)
                THEN Returned(text, StrOrNone(language), segments)
                ELSE NoText
      ELSE IF result.shape = "obj"
        THEN LET text == OrElse(result.text, result.transcript)
                 language == OrElse(result.language, result.lang)
                 segments == OrElse(result.segments, result.timestamps)
             IN IF Truthy(text)
                  THEN Returned(text, StrOrNone(language), segments)
                  ELSE NoText
        ELSE NoText

TrNone == [done |-> FALSE, raised |-> "none", text |-> "", language |-> NoneV,
           segments |-> NoneV]

InitTranscript ==
  /\ fnIn \in [result : BackendResults]
  /\ fnOut = TrNone

ExtractStep ==
  /\ ~fnOut.done
  /\ LET r == ExtractTranscript(fnIn.result)
     IN fnOut' = [done |-> TRUE, raised |-> r.raised, text |-> r.text,
                  language |-> r.language, segments |-> r.segments]
  /\ UNCHANGED fnIn

(* ------------------------------------------------------------------ *)
(* engine.py: _normalize_segments                                      *)
(* ------------------------------------------------------------------ *)
MaxSegs == 2

\* numbers as they are written, None included, and float() of them
BoundValues == {NoneV, "0", "2"}
Float(v) == CASE v = "0" -> "0.0" [] v = "2" -> "2.0" [] OTHER -> v

\* `float(start) if start is not None else 0.0`
FloatOrZero(v) == IF v = NoneV THEN "0.0" ELSE Float(v)

SegTexts == {NoneV, "", " hi "}
\* str.strip() on the strings of the segments
StripStr(v) == CASE v = " hi " -> "hi" [] v = " " -> "" [] OTHER -> v

\* the entries of a segments list: a mapping, a (start, end, text) triple,
\* and anything else (a shorter tuple, a string, None)
DictSegments ==
  [shape : {"dict"}, start : {NoneV, "0"}, end : {NoneV, "2"}, text : SegTexts,
   transcript : {NoneV, "", "t"}]
TripleSegments ==
  [shape : {"triple"}, start : {NoneV, "0"}, end : {NoneV, "2"}, text : SegTexts,
   transcript : {NoneV}]
OtherSegments ==
  [shape : {"other"}, start : {NoneV}, end : {NoneV}, text : {NoneV}, transcript : {NoneV}]
Segments == DictSegments \cup TripleSegments \cup OtherSegments

SegmentLists == UNION {[1 .. n -> Segments] : n \in 0 .. MaxSegs}

\* `segment.get("text") or segment.get("transcript")`: the second operand
\* is the value when the first is falsy, None when the key is absent
DictText(segment) ==
  IF Truthy(segment.text) THEN segment.text ELSE segment.transcript

\* the text the loop body reads from an entry of a recognized shape
SegmentText(segment) ==
  IF segment.shape = "dict" THEN DictText(segment) ELSE segment.text

\* the loop body: `continue` for an unrecognized shape and for a text that
\* is None, else the one dict appended
NormalizeOne(segment) ==
  IF segment.shape \notin {"dict", "triple"} THEN << >>
  ELSE IF SegmentText(segment) = NoneV THEN << >>
  ELSE << [start |-> FloatOrZero(segment.start), end |-> FloatOrZero(segment.end),
           text |-> StripStr(SegmentText(segment))] >>

RECURSIVE NormalizeList(_)
NormalizeList(segments) ==
  IF segments = << >> THEN << >>
  ELSE NormalizeOne(Head(segments)) \o NormalizeList(Tail(segments))

\* _normalize_segments: nothing for a falsy value and for a value that is
\* not a list
NormalizeSegments(isList, segments) ==
  IF segments = << >> \/ ~isList THEN << >> ELSE NormalizeList(segments)

InitSegments ==
  /\ fnIn \in [isList : BOOLEAN, segments : SegmentLists]
  /\ fnOut = [done |-> FALSE, segments |-> << >>]

NormalizeStep ==
  /\ ~fnOut.done
  /\ fnOut' = [done |-> TRUE, segments |-> NormalizeSegments(fnIn.isList, fnIn.segments)]
  /\ UNCHANGED fnIn

(* ------------------------------------------------------------------ *)
(* app.py: GET /health and GET /ready                                  *)
(* ------------------------------------------------------------------ *)
\* a response: the status code, the "status" of the body, its model_loaded
Response(code, text, loaded) == [status |-> code, text |-> text, loaded |-> loaded]
NoResponseYet == Response(0, "none", FALSE)

\* an exception that leaves a handler is answered 500 by the framework
ServerError == Response(500, "none", FALSE)

\* the two HTTPException(503) of /ready: an error is set, or completed is
\* false
ReadyRefused(state) == Truthy(state.error) \/ ~state.completed

\* GET /ready on a copy of the warmup state; the body reads _config.backend
ReadyResponse(state, cfg) ==
  IF ReadyRefused(state) THEN Response(503, "none", FALSE)
  ELSE IF HasBackend(cfg) THEN Response(200, "ready", TRUE)
  ELSE ServerError

\* GET /health: the body reads _config.backend and the warmup state
HealthResponse(state, cfg) ==
  IF HasBackend(cfg) THEN Response(200, "ok", FALSE) ELSE ServerError

\* the values of the warmup state record, the test helpers included
WarmupErrors == {NoneV, "not installed", "constructor failed"}
WarmupStates == [started : BOOLEAN, completed : BOOLEAN, error : WarmupErrors]

InitProbe ==
  /\ fnIn \in [state : WarmupStates, cfg : ServiceConfigs]
  /\ fnOut = [ready |-> NoResponseYet, health |-> NoResponseYet]

GetReady ==
  /\ fnOut.ready = NoResponseYet
  /\ fnOut' = [fnOut EXCEPT !.ready = ReadyResponse(fnIn.state, fnIn.cfg)]
  /\ UNCHANGED fnIn

GetHealth ==
  /\ fnOut.health = NoResponseYet
  /\ fnOut' = [fnOut EXCEPT !.health = HealthResponse(fnIn.state, fnIn.cfg)]
  /\ UNCHANGED fnIn

(* ------------------------------------------------------------------ *)
(* Specifications                                                      *)
(* ------------------------------------------------------------------ *)
\* no call of _resolve_request_config, of apply_cleanup, of a pure helper
RcOff == rcIn = RcIdle /\ rcOut = RcNone
ClOff == clIn = ClIdle /\ clOut = ClNone
FnOff == fnIn = << >> /\ fnOut = << >>

\* the service: warmup thread, POST /warmup, POST /transcribe
Init ==
  /\ InitService
  /\ RcOff /\ ClOff /\ FnOff

Next == NextService /\ UNCHANGED << rcVars, clVars, fnVars >>

Spec == Init /\ [][Next]_vars

\* _resolve_request_config on every input of the bounded sets
InitR ==
  /\ IdleService
  /\ InitResolve
  /\ ClOff /\ FnOff

NextR == Resolve /\ UNCHANGED << svcVars, clVars, fnVars >>

\* the requests alone: the admission gate with more requests than it admits
InitG ==
  /\ InitGate
  /\ RcOff /\ ClOff /\ FnOff

NextG ==
  /\ \/ NoneDone /\ \E p \in Procs : LoadModel(p)
     \/ NoneDone /\ \E r \in Reqs : Transcribe(r)
     \/ \E p \in Procs : Close(p)
  /\ UNCHANGED << rcVars, clVars, fnVars >>

SpecGate == InitG /\ [][NextG]_vars

\* the steps of one request: a coroutine that can run is run by the event
\* loop, a call given to the thread pool is run by its thread and
\* terminates
RequestStep(r) ==
  /\ NoneDone /\ (LoadModel(r) \/ Transcribe(r))
  /\ UNCHANGED << rcVars, clVars, fnVars >>

ResponseSent(r) == Close(r) /\ UNCHANGED << rcVars, clVars, fnVars >>

FairRequests ==
  \A r \in Reqs : WF_vars(RequestStep(r)) /\ WF_vars(ResponseSent(r))

SpecGateFair == SpecGate /\ FairRequests

\* _warmup_model alone, called more than once
InitW ==
  /\ InitWarmup
  /\ RcOff /\ ClOff /\ FnOff

NextW ==
  /\ \/ NoneDone /\ \E p \in WarmCalls : LoadModel(p)
     \/ NoneDone /\ \E p \in WarmCalls : Warmup(p)
     \/ \E p \in WarmCalls : Close(p)
  /\ UNCHANGED << rcVars, clVars, fnVars >>

SpecWarmup == InitW /\ [][NextW]_vars

\* the same next to the functions that write the warmup record directly
NextWS ==
  \/ NextW
  \/ /\ NoneDone
     /\ \/ ResetWarmupState
        \/ SetWarmupCompleted
        \/ \E e \in TestErrors : SetWarmupError(e)
     /\ UNCHANGED << rcVars, clVars, fnVars >>

SpecWarmupState == InitW /\ [][NextWS]_vars

SpecResolve == InitR /\ [][NextR]_vars

\* apply_cleanup on every input of the bounded sets
InitC ==
  /\ IdleService
  /\ RcOff /\ FnOff
  /\ InitCleanup

NextC == ApplyCleanup /\ UNCHANGED << svcVars, rcVars, fnVars >>

SpecCleanup == InitC /\ [][NextC]_vars

\* basic_cleanup on every text of the bounded set, twice
InitB ==
  /\ IdleService
  /\ RcOff /\ ClOff
  /\ InitBasic

NextB == BasicTwice /\ UNCHANGED << svcVars, rcVars, clVars >>

SpecBasic == InitB /\ [][NextB]_vars

\* llm_cleanup on every message content of the JSON tiers
InitX ==
  /\ IdleService
  /\ RcOff /\ ClOff
  /\ InitExtract

NextX == LlmContent /\ UNCHANGED << svcVars, rcVars, clVars >>

SpecExtract == InitX /\ [][NextX]_vars

\* _extract_transcript on every backend result of the bounded shapes
InitT ==
  /\ IdleService
  /\ RcOff /\ ClOff
  /\ InitTranscript

NextT == ExtractStep /\ UNCHANGED << svcVars, rcVars, clVars >>

SpecTranscript == InitT /\ [][NextT]_vars

\* _normalize_segments on every segments value of the bounded shapes
InitN ==
  /\ IdleService
  /\ RcOff /\ ClOff
  /\ InitSegments

NextN == NormalizeStep /\ UNCHANGED << svcVars, rcVars, clVars >>

SpecSegments == InitN /\ [][NextN]_vars

\* GET /ready and GET /health in every warmup state
InitP ==
  /\ IdleService
  /\ RcOff /\ ClOff
  /\ InitProbe

NextP == (GetReady \/ GetHealth) /\ UNCHANGED << svcVars, rcVars, clVars >>

SpecProbe == InitP /\ [][NextP]_vars

(* ------------------------------------------------------------------ *)
(* Properties                                                          *)
(* ------------------------------------------------------------------ *)
\* the threads inside the construction section of _load_model
Building == {p \in Procs : pc[p] = "lm_build"}

\* p has come back from _load_model with a handle
Loaded(p) == pc[p] = "lm_ret" /\ exc[p] = NoExc

Builds(k) == IF k \in DOMAIN built THEN built[k] ELSE 0

\* C1: for every key, whatever the number of concurrent _load_model callers,
\* the constructor returns a model at most once and never runs again once
\* the key is cached, every caller that comes back with a handle comes back
\* with the one cached handle of a key constructed exactly once, and at no
\* time are two threads inside the construction section.
C1_LoadOnce ==
  /\ \A k \in DOMAIN built : built[k] <= 1
  /\ Cardinality(Building) <= 1
  /\ \A p \in Building : ~InCache(key[p]) /\ lockHolder = p
  /\ \A p \in Procs : Loaded(p) =>
       /\ InCache(key[p]) /\ ret[p] = cache[key[p]]
       /\ Builds(key[p]) = 1
  /\ \A p, q \in Procs : Loaded(p) /\ Loaded(q) /\ key[p] = key[q] => ret[p] = ret[q]

\* C1 witness: two callers of the same key are back with the same model
\* while a third caller is constructing another key.
C1_Witness ==
  \E p, q \in Procs :
    /\ p # q /\ Loaded(p) /\ Loaded(q) /\ key[p] = key[q]
    /\ ret[p] = ret[q] /\ ret[p] # NoHandle
    /\ Building # {}

\* C2: at most one /transcribe request is inside a backend transcription
\* call at any time.
C2_OneBackendCall == Cardinality({r \in Reqs : pc[r] = "backend"}) <= 1

\* C2 witness: one request is inside the backend call while the other has
\* arrived and waits at the gate.
C2_Witness ==
  \E r, w \in Reqs : pc[r] = "backend" /\ pc[w] = "wait" /\ waiters = << w >>

\* C3: a construction that raises stores nothing in the cache and hands its
\* exception to the caller, and every cache entry comes from a construction
\* that returned: a later call for the key constructs again.
C3_FailureNotCached ==
  /\ [](\A k \in DOMAIN cache : Builds(k) >= 1)
  /\ [][\A p \in Procs :
          (pc[p] = "lm_build" /\ pc'[p] = "lm_ret") =>
             \/ exc'[p] # NoExc /\ cache' = cache /\ lockHolder' = 0
             \/ exc'[p] = NoExc /\ InCache(key[p])' /\ Builds(key[p])' = Builds(key[p]) + 1]_vars

\* C3 witness: a caller is back from _load_model with the exception of a
\* failed construction while another caller constructs the same key again.
C3_Witness ==
  \E p, q \in Procs :
    /\ p # q /\ pc[p] = "lm_ret" /\ exc[p] # NoExc
    /\ key[p][1] \in LoadableBackends
    /\ q \in Building /\ key[q] = key[p]

\* the keys under which the process-default model is loaded
DefaultKeys ==
  { WarmupKey(config), PostWarmupKey(config, NoneV),
    ResolveRequestConfig(config, NoneV, NoneV, NoneV, NoneV) }

RECURSIVE SumBuilds(_)
SumBuilds(ks) ==
  IF ks = {} THEN 0
  ELSE LET k == CHOOSE x \in ks : TRUE IN Builds(k) + SumBuilds(ks \ {k})

\* C4: while the warmup thread constructs the default model, a request or
\* POST /warmup for the same key has no handle yet (it is before or at the
\* lock); once back it holds the cached handle; and across the warmup
\* thread, POST /warmup and requests the default model is constructed at
\* most once.
C4_WarmupNotDuplicated ==
  /\ SumBuilds(DefaultKeys) <= 1
  /\ \A w \in Warms, p \in Reqs \cup Posts :
       (w \in Building /\ key[p] = key[w]) =>
          (pc[p] \in {"lm_fast", "lm_lock"} \/ exc[p] # NoExc)
  /\ \A p \in Reqs \cup Posts :
       (Loaded(p) /\ key[p] \in DefaultKeys) => ret[p] = cache[key[p]]

\* C4 witness: the warmup thread is constructing the default model while a
\* request and a POST /warmup for the same key wait for the lock.
C4_Witness ==
  \E w \in Warms, r \in Reqs, p \in Posts :
    /\ w \in Building
    /\ key[r] = key[w] /\ pc[r] = "lm_lock"
    /\ key[p] = key[w] /\ pc[p] = "lm_lock"

\* position of the first s in a sequence, 0 when absent
IndexOf(seq, s) ==
  IF \E i \in 1 .. Len(seq) : seq[i] = s
    THEN CHOOSE i \in 1 .. Len(seq) : seq[i] = s /\ \A j \in 1 .. (i - 1) : seq[j] # s
    ELSE 0

Did(r, s) == IndexOf(rq[r].steps, s) > 0

\* C5: for every backend, a request calls the backend only after its
\* duration was computed, and a request whose duration exceeds
\* max_duration_s makes no backend call and fails with ValueError (400).
C5_DurationBeforeBackend ==
  \A r \in Reqs :
    /\ rq[r].calls > 0 =>
         /\ Did(r, "duration") /\ Did(r, "backend")
         /\ IndexOf(rq[r].steps, "duration") < IndexOf(rq[r].steps, "backend")
    /\ rq[r].over =>
         /\ rq[r].calls = 0 /\ ~Did(r, "backend")
         /\ exc[r] = MkExc("ValueError", "exceeds max duration")
         /\ pc[r] = "done" => status[r] = 400

\* C5 witness: a faster-whisper request has been refused for its duration.
C5_Witness ==
  \E r \in Reqs :
    /\ pc[r] = "done" /\ rq[r].over /\ status[r] = 400
    /\ key[r][1] = "faster-whisper"

\* C6 (as claimed): when a request returns, each of its temporary files, the
\* uploaded copy and the converted WAV, is gone, unless its unlink was
\* attempted and raised.
C6_TempFilesDeleted ==
  \A r \in Reqs :
    pc[r] = "done" =>
      /\ rq[r].upExists => rq[r].upFailed
      /\ rq[r].convExists => rq[r].convFailed

\* the steps of a request, in the order of the code
StepOrder == << "admit", "resolve", "acquire", "preprocess", "duration", "backend", "cleanup" >>

IsPrefix(a, b) == Len(a) <= Len(b) /\ a = SubSeq(b, 1, Len(a))

\* the steps before the release of the gate
BeforeRelease(seq) ==
  IF seq # << >> /\ seq[Len(seq)] = "release" THEN SubSeq(seq, 1, Len(seq) - 1) ELSE seq

HoldsGate(r) == Did(r, "admit") /\ ~Did(r, "release")

InTranscribeFile(r) ==
  pc[r] \in {"resolve", "lm_fast", "lm_lock", "lm_build", "lm_ret", "duration",
             "backend", "release"}

\* C7 (as claimed): a request holds the gate only after its model
\* acquisition and duration check are done, and a request rejected for
\* excessive duration never holds the gate.
C7_GateAfterDuration ==
  \A r \in Reqs :
    /\ HoldsGate(r) => Did(r, "acquire") /\ Did(r, "duration")
    /\ rq[r].over => ~Did(r, "admit")

\* C7 (amended): a request enters the gate first and holds it for the whole
\* of transcribe_file, in which it resolves the configuration, acquires the
\* model, preprocesses the audio, checks the duration and calls the backend
\* in that order; a request rejected for excessive duration held the gate.
C7_GateFirstThenOrder ==
  \A r \in Reqs :
    /\ IsPrefix(BeforeRelease(rq[r].steps), StepOrder)
    /\ InTranscribeFile(r) <=> HoldsGate(r)
    /\ rq[r].over => Did(r, "admit")
    /\ Cardinality({x \in Reqs : HoldsGate(x)}) = SemCapacity - semValue

\* C7 witness: a request refused for its duration still holds the gate.
C7_Witness ==
  \E r \in Reqs : rq[r].over /\ pc[r] = "release" /\ HoldsGate(r) /\ semValue = 0

\* the backend named by an override differs from the process default
OtherBackend(cfg, bo) == Truthy(bo) /\ Lower(bo) # Lower(cfg.backend)

CarriedOver(cfg, b, model) ==
  /\ model = cfg.model_name
  /\ b \notin TableBackends \/ _DEFAULT_BACKEND_MODELS[b] # cfg.model_name

\* C9 (as claimed): a request whose backend override differs from the
\* process default backend and that gives no model name (None or "") never
\* resolves to the model name of the process default.
C9_NoCarriedOverModel ==
  ( /\ rcOut.done /\ ~rcOut.raised
    /\ OtherBackend(rcIn.cfg, rcIn.bo) /\ ~Truthy(rcIn.mo) ) =>
     ~CarriedOver(rcIn.cfg, rcOut.key[1], rcOut.key[2])

\* C10: apply_cleanup with mode "none" returns its input text unchanged,
\* raises nothing and makes no remote call.
C10_NoneIsIdentity ==
  ( clOut.done /\ clIn.mode = "none" ) =>
     clOut.text = clIn.text /\ clOut.raised = "none" /\ clOut.remote = 0

\* C10 witness: a text that the basic mode would change came back as it was.
C10_Witness ==
  /\ clOut.done /\ clIn.mode = "none" /\ clIn.cfgMode = "llm"
  /\ clIn.text = << " ", "a", " " >> /\ clOut.text = clIn.text

\* a text has a whitespace character at position i followed by something of S
WsBefore(t, S) == \E i \in 1 .. (Len(t) - 1) : t[i] \in Whitespace /\ t[i + 1] \in S

\* C11: basic_cleanup returns for every text; cleaning its output again
\* changes nothing; and its output neither begins nor ends with whitespace,
\* has no two whitespace characters in a row and no whitespace right before
\* one of , . ; : ! ?
C11_BasicIdempotent ==
  fnOut.done =>
    /\ fnOut.twice = fnOut.once
    /\ fnOut.once # << >> =>
         /\ Head(fnOut.once) \notin Whitespace
         /\ fnOut.once[Len(fnOut.once)] \notin Whitespace
    /\ ~WsBefore(fnOut.once, Whitespace)
    /\ ~WsBefore(fnOut.once, Punctuation)
    /\ Len(fnOut.once) <= Len(fnIn.text)

\* C11 witness: " a \n," has been cleaned to "a,", and cleaning that again
\* gave "a,".
C11_Witness ==
  /\ fnOut.done
  /\ fnIn.text = << " ", "a", " ", "\n", "," >>
  /\ fnOut.once = << "a", "," >>
  /\ fnOut.twice = << "a", "," >>

\* C12: apply_cleanup has a result exactly for the selected mode names
\* none, basic and llm (llm may fail for its own reasons); for every other
\* selected name it raises ValueError, makes no remote call and returns no
\* text, and transcribe_file builds no result.
C12_UnknownModeRaises ==
  clOut.done =>
    LET selected == SelectedMode(clIn.mode, clIn.cfgMode)
    IN /\ selected \notin KnownModes =>
            /\ clOut.raised = "ValueError" /\ clOut.remote = 0
            /\ clOut.text = << >> /\ ~clOut.envelope
       /\ selected \in KnownModes => clOut.raised # "ValueError"
       /\ selected \in {"none", "basic"} => clOut.raised = "none" /\ clOut.envelope
       /\ clOut.envelope <=> clOut.raised = "none"

\* C12 witness: the mode "fancy" was given for a non-empty text while the
\* configured mode is basic, and apply_cleanup raised ValueError.
C12_Witness ==
  /\ clOut.done /\ clIn.mode = "fancy" /\ clIn.cfgMode = "basic"
  /\ clIn.text = << "a", " ", "," >>
  /\ clOut.raised = "ValueError" /\ ~clOut.envelope

\* a candidate parses as a JSON object that has a text key
IsTextObject(candidate) ==
  candidate # << >> /\ JsonLoads(candidate).dict /\ JsonLoads(candidate).hasText

\* the text value of such an object, as a string, without the whitespace
\* around it; the empty string for null
TrimmedText(candidate) ==
  LET v == JsonLoads(candidate).value
  IN IF v.kind = "null" THEN << >> ELSE Strip(v.text)

\* C13 (as claimed): when the whole content is a JSON object with a text key
\* the result is that value; otherwise, when the span from the first "{" to
\* the last "}" is such an object, the result is its text value.
C13_ValueIsResult ==
  (fnOut.done /\ fnOut.raised = "none") =>
    LET c == Strip(fnIn.content)
        span == JsonBlock(c)
    IN /\ (IsTextObject(c) /\ JsonLoads(c).value.kind = "str") =>
             fnOut.text = JsonLoads(c).value.text
       /\ (~IsTextObject(c) /\ IsTextObject(span) /\ JsonLoads(span).value.kind = "str") =>
             fnOut.text = JsonLoads(span).value.text

\* C13 (amended): when the whole content is a JSON object with a text key the
\* result is that value as a string with the whitespace around it removed,
\* and an empty or null value gives the empty result, not a failure;
\* otherwise, when the span from the first "{" to the last "}" is such an
\* object, the result is its text value treated the same way; the
\* preamble-stripping tier is used exactly when both attempts fail.
C13_JsonTiers ==
  (fnOut.done /\ fnOut.raised = "none") =>
    LET c == Strip(fnIn.content)
        span == JsonBlock(c)
    IN /\ IsTextObject(c) => fnOut.tier = 1 /\ fnOut.text = TrimmedText(c)
       /\ (~IsTextObject(c) /\ IsTextObject(span)) =>
             fnOut.tier = 2 /\ fnOut.text = TrimmedText(span)
       /\ fnOut.tier = 3 <=> (~IsTextObject(c) /\ ~IsTextObject(span))
       /\ (IsTextObject(c) /\ JsonLoads(c).value.text = << >>) =>
             fnOut.tier = 1 /\ fnOut.text = << >>

\* C13 witness: the content x{"text": " a"} gave "a" from the brace span.
C13_Witness ==
  /\ fnOut.done /\ fnOut.raised = "none"
  /\ fnIn.content = << "x", "{", "t= a", "}" >>
  /\ fnOut.tier = 2 /\ fnOut.text = << "a" >>

\* a line that the loop of _strip_llm_wrapper drops: blank, or beginning
\* with a preamble phrase
Droppable(line) ==
  LET head == Strip(line)
  IN \/ head = << >>
     \/ head[1] = "P" /\ (Len(head) = 1 \/ head[2] \notin WordTokens)

\* the content without its leading droppable lines
AfterPreamble(c) ==
  LET lines == SplitLines(c)
      keep == {i \in 1 .. Len(lines) : ~Droppable(lines[i])}
  IN IF keep = {} THEN << >>
     ELSE LET k == CHOOSE i \in keep : \A j \in keep : i <= j
          IN Strip(JoinLines(SubSeq(lines, k, Len(lines))))

HasPreamble(c) == c # << >> /\ Droppable(SplitLines(c)[1])

\* t is wrapped in one quote character that does not occur inside
QuoteWrapped(t) ==
  /\ Len(t) >= 2 /\ t[1] \in Quotes /\ t[Len(t)] = t[1]
  /\ \A i \in 2 .. (Len(t) - 1) : t[i] # t[1]

\* C14 (as claimed): in the preamble tier the leading blank and preamble
\* lines are dropped; the outer quote pair is removed only if a preamble line
\* was dropped and the rest is wrapped in one quote character that does not
\* occur inside; and a content without a recognized preamble comes back
\* trimmed and otherwise unchanged, quotes included.
C14_WrapperStripped ==
  (fnOut.done /\ fnOut.raised = "none" /\ fnOut.tier = 3) =>
    LET c == Strip(fnIn.content)
        body == AfterPreamble(c)
    IN /\ fnOut.text # body =>
            /\ HasPreamble(c) /\ QuoteWrapped(body)
            /\ fnOut.text = Strip(SubSeq(body, 2, Len(body) - 1))
       /\ (HasPreamble(c) /\ QuoteWrapped(body)) => fnOut.text # body
       /\ ~HasPreamble(c) => fnOut.text = c

\* C14 without its last part: what holds of the code.
C14_PreambleAndQuotes ==
  (fnOut.done /\ fnOut.raised = "none" /\ fnOut.tier = 3) =>
    LET c == Strip(fnIn.content)
        body == AfterPreamble(c)
    IN /\ fnOut.text # body =>
            /\ HasPreamble(c) /\ QuoteWrapped(body)
            /\ fnOut.text = Strip(SubSeq(body, 2, Len(body) - 1))
       /\ (HasPreamble(c) /\ QuoteWrapped(body)) => fnOut.text # body
       /\ ~HasPreamble(c) => fnOut.text = body

\* the responses that C15 names: the call failed, or the body has no
\* choices, or the content is absent or empty
FailedResponse(response) ==
  \/ response.kind \in {"timeout", "refused", "http_error", "no_choices", "no_content"}
  \/ response.kind = "content" /\ response.content = << >>

\* C15: in llm mode, when the remote call times out, cannot connect or
\* answers with a status outside 2xx, or the response has no choices or an
\* absent or empty content, llm_cleanup raises after its one remote call and
\* transcribe_file builds no result: neither the raw transcript nor an empty
\* text is returned.
C15_LlmFailureRaises ==
  ( /\ clOut.done
    /\ SelectedMode(clIn.mode, clIn.cfgMode) = "llm"
    /\ FailedResponse(clIn.response) ) =>
      /\ clOut.raised \notin {"none", "ValueError"}
      /\ clOut.remote = 1
      /\ ~clOut.envelope

\* C15 witness: the llm mode was asked for the text "a," and the endpoint
\* answered with an empty content; apply_cleanup raised RuntimeError.
C15_Witness ==
  /\ clOut.done /\ clIn.mode = "llm" /\ clIn.text = << "a", "," >>
  /\ clIn.response = [kind |-> "content", content |-> << >>]
  /\ clOut.raised = "RuntimeError" /\ ~clOut.envelope

\* the result has no text under any candidate of its shape
YieldsNoText(result) ==
  CASE result.shape = "str" -> result.text = ""
    [] result.shape = "dict" ->
         ~Truthy(result.text) /\ ~Truthy(result.transcript) /\ ~Truthy(result.utterance)
    [] OTHER -> ~Truthy(result.text) /\ ~Truthy(result.transcript)

\* C16: _extract_transcript raises the no-text ValueError whenever the
\* result has no text under any candidate, whatever its shape, and a text it
\* returns is never empty.
C16_NoTextRaises ==
  fnOut.done =>
    /\ YieldsNoText(fnIn.result) => fnOut.raised = "ValueError"
    /\ fnOut.raised = "none" => fnOut.text # ""

\* what holds of the code: C16 for the mapping and attribute shapes
C16_ShapedNoTextRaises ==
  (fnOut.done /\ fnIn.result.shape # "str") =>
    /\ YieldsNoText(fnIn.result) <=> fnOut.raised = "ValueError"
    /\ fnOut.raised = "none" => fnOut.text # ""

\* an entry of a recognized shape has a text: a triple whose third item is
\* not None, a mapping with a text or transcript value that is not None
HasText(segment) ==
  \/ segment.shape = "triple" /\ segment.text # NoneV
  \/ segment.shape = "dict" /\ (segment.text # NoneV \/ segment.transcript # NoneV)

\* the text of such an entry: for a mapping the text value, the transcript
\* value when the text is absent or empty
TextOf(segment) ==
  IF segment.shape = "dict" /\ ~Truthy(segment.text) /\ segment.transcript # NoneV
    THEN segment.transcript
    ELSE segment.text

Canonical(segment) ==
  [start |-> IF segment.start = NoneV THEN "0.0" ELSE Float(segment.start),
   end |-> IF segment.end = NoneV THEN "0.0" ELSE Float(segment.end),
   text |-> StripStr(TextOf(segment))]

RECURSIVE CanonicalOfThoseWithText(_)
CanonicalOfThoseWithText(segments) ==
  IF segments = << >> THEN << >>
  ELSE (IF HasText(Head(segments)) THEN << Canonical(Head(segments)) >> ELSE << >>)
         \o CanonicalOfThoseWithText(Tail(segments))

\* C17: for a list of mappings and triples _normalize_segments returns, in
\* the order of the input, exactly the entries that have a text, each as
\* start, end and trimmed text with 0.0 for a missing bound; the other
\* entries are dropped, and the output is never longer than the input.
C17_SegmentsWithTextKept ==
  (fnOut.done /\ fnIn.isList) =>
    /\ fnOut.segments = CanonicalOfThoseWithText(fnIn.segments)
    /\ Len(fnOut.segments) <= Len(fnIn.segments)

\* what holds of the code: the entries kept are those whose text as the loop
\* reads it is not None, and nothing is added
C17_KeptAsRead ==
  (fnOut.done /\ fnIn.isList) =>
    /\ Len(fnOut.segments) =
         Cardinality({i \in 1 .. Len(fnIn.segments) :
                        /\ fnIn.segments[i].shape \in {"dict", "triple"}
                        /\ SegmentText(fnIn.segments[i]) # NoneV})
    /\ Len(fnOut.segments) <= Len(fnIn.segments)
    /\ \A i \in 1 .. Len(fnOut.segments) :
         fnOut.segments[i].start \in {"0.0"} /\ fnOut.segments[i].end \in {"0.0", "2.0"}

\* the failures of transcribe_file by kind: bad input; a missing tool or
\* package; a backend that is unsupported, gives a malformed result or no
\* text; a failed remote cleanup
ValidationFailures == {"exceeds max duration", "unknown cleanup mode"}
EnvironmentFailures == {"ffmpeg not found", "not installed"}
BackendFailures ==
  {"unsupported backend", "no transcribe()", "unable to call transcribe()", "no text",
   "model failed to load", "constructor failed", "backend failed"}
TransportFailures == {"llm cleanup failed"}

\* C18: a request that failed for a validation error is answered 400; one
\* that failed for an environment, backend or remote-cleanup error is
\* answered 500 and never 400.
C18_ErrorClassKept ==
  \A r \in Reqs : pc[r] = "done" =>
    /\ exc[r].why \in ValidationFailures => status[r] = 400
    /\ exc[r].why \in EnvironmentFailures \cup BackendFailures \cup TransportFailures =>
         status[r] = 500

\* what holds of the code: 400 for every ValueError, 500 for every other
\* exception
C18_ValueErrorIsClientError ==
  \A r \in Reqs : (pc[r] = "done" /\ exc[r] # NoExc) =>
    status[r] = IF exc[r].cls = "ValueError" THEN 400 ELSE 500

\* C19: /ready answers 503 whenever the warmup state has an error or is not
\* completed, and 200 with status ready and model_loaded true exactly when
\* it is completed without an error; /health answers 200 in every warmup
\* state.
C19_ReadyAndHealth ==
  /\ fnOut.ready # NoResponseYet =>
       /\ (fnIn.state.error # NoneV \/ ~fnIn.state.completed) => fnOut.ready.status = 503
       /\ fnOut.ready = Response(200, "ready", TRUE) <=>
            (fnIn.state.completed /\ fnIn.state.error = NoneV)
  /\ fnOut.health # NoResponseYet => fnOut.health.status = 200

\* what holds of the code: C19 for a configuration that has a backend
C19_WithBackend ==
  HasBackend(fnIn.cfg) => C19_ReadyAndHealth

\* the startup warmup thread has come to its end
WarmupOver == \A w \in Warms : pc[w] \in {"done", "closed"}

\* what GET /ready answers in the current state
ReadyNow == ReadyResponse(wstate, config)

\* C20: while the key of the default configuration is not in the model
\* cache /ready answers 503, and once it is there (the warmup thread having
\* come to its end), whoever loaded it, /ready answers ready.
C20_ReadyFollowsCache ==
  HasBackend(config) =>
    /\ ~InCache(WarmupKey(config)) => ReadyNow.status = 503
    /\ (InCache(WarmupKey(config)) /\ WarmupOver) => ReadyNow = Response(200, "ready", TRUE)

\* what holds of the code: /ready answers ready only with the default key in
\* the cache, and exactly when the warmup thread itself has completed
C20_ReadyFollowsWarmup ==
  /\ ReadyNow.status = 200 => InCache(WarmupKey(config))
  /\ ReadyNow.status = 200 <=> (wstate.completed /\ wstate.error = NoneV)

\* C21: the model-cache lock is held only by a thread inside the
\* construction section of _load_model: a call that has returned or raised
\* holds it no more, and a caller waiting for the lock waits for a thread
\* that is still constructing.
C21_LockReleased ==
  /\ lockHolder # 0 => pc[lockHolder] = "lm_build"
  /\ \A p \in Procs : pc[p] # "lm_build" => lockHolder # p

\* C21 witness: a _load_model call has raised from its construction, and a
\* later caller holds the lock and constructs.
C21_Witness ==
  \E p, q \in Procs :
    /\ p # q
    /\ pc[p] = "lm_ret" /\ exc[p].why = "constructor failed"
    /\ pc[q] = "lm_build" /\ lockHolder = q

\* C22: a _load_model call whose key is in the cache can return the cached
\* handle whoever holds the lock, and its return leaves the lock as it is.
C22_FastPathNoLock ==
  \A p \in Procs : (pc[p] = "lm_fast" /\ InCache(key[p])) =>
    ENABLED ( /\ LoadFast(p)
              /\ pc'[p] = "lm_ret" /\ ret'[p] = cache[key[p]]
              /\ lockHolder' = lockHolder )

\* C22 witness: a caller stands at the lookup with its key in the cache
\* while another thread holds the lock and constructs a different key.
C22_Witness ==
  \E p, q \in Procs :
    /\ pc[p] = "lm_fast" /\ InCache(key[p])
    /\ pc[q] = "lm_build" /\ lockHolder = q /\ key[q] # key[p]

\* C23: no step removes a key from the model cache or changes the handle
\* of a key that is in it.
C23_CacheOnlyGrows ==
  [][\A k \in DOMAIN cache : k \in DOMAIN cache' /\ cache'[k] = cache[k]]_vars

\* C23 witness: a second key has been stored in the cache, next to the first
\* one, each with the handle of its one construction.
C23_Witness ==
  \E k1, k2 \in DOMAIN cache :
    /\ k1 # k2
    /\ cache[k1] # NoHandle /\ cache[k2] # NoHandle
    /\ Builds(k1) = 1 /\ Builds(k2) = 1

\* a waits for the gate and b waits behind it
Ahead(a, b) ==
  \E i, j \in 1 .. Len(waiters) : i < j /\ waiters[i] = a /\ waiters[j] = b

C25_EnteredOnce == \A r \in Reqs : rq[r].entered <= 1

\* what holds of the code: one call for every backend but mlx-whisper, and
\* for mlx-whisper at most one call per positional call shape
C25_OneCallPerShape ==
  \A r \in Reqs :
    /\ rq[r].entered <= rq[r].calls /\ rq[r].calls <= NumCandidates
    /\ key[r][1] # "mlx-whisper" => rq[r].calls <= 1
    /\ pc[r] = "backend" => rq[r].calls >= 1 /\ rq[r].calls >= rq[r].cand
    /\ pc[r] # "backend" => rq[r].entered = 0

\* the positional call shapes of _run_mlx_whisper, step by step: the first
\* call is by keyword or by the first shape (by keyword for every other
\* backend); the shapes follow one another in their order; the call that ends
\* the dispatch had its arguments taken, unless every shape raised TypeError
\* and RuntimeError is raised
ShapesInOrder(r) ==
  /\ (pc[r] = "duration" /\ pc'[r] = "backend") =>
        /\ rq'[r].cand \in {0, 1}
        /\ key[r][1] # "mlx-whisper" => rq'[r].cand = 0
  /\ (pc[r] = "backend" /\ pc'[r] = "backend" /\ rq'[r] # rq[r]) =>
        /\ rq[r].cand >= 1 /\ rq'[r].cand = rq[r].cand + 1
        /\ rq'[r].cand <= NumCandidates
        /\ rq'[r].calls = rq[r].calls + 1
  /\ (pc[r] = "backend" /\ pc'[r] = "release") =>
        IF exc'[r] = MkExc("RuntimeError", "unable to call transcribe()")
          THEN rq[r].cand = NumCandidates
          ELSE rq[r].bound

\* a shape is left for the next one only when its arguments did not fit
AbandonedOnMismatch(r) ==
  (pc[r] = "backend" /\ pc'[r] = "backend" /\ rq'[r].cand # rq[r].cand) => ~rq[r].bound

\* C26: without a named audio or model parameter the positional call shapes
\* (model, audio), (audio, model), (audio) are tried in that order, a shape
\* is abandoned only on a shape-mismatch error, the first shape that raises
\* none supplies the result, RuntimeError is raised when all three are
\* rejected, and a named binding excludes the positional shapes.
C26_ShapesAsClaimed ==
  [][\A r \in Reqs : ShapesInOrder(r) /\ AbandonedOnMismatch(r)]_vars

\* what holds of the code: the same without the clause on abandoning, since
\* a TypeError raised by the body of the entry point abandons the shape too
C26_ShapesInOrder == [][\A r \in Reqs : ShapesInOrder(r)]_vars

\* the last shape has been called after the first two were abandoned
C26_AllShapesTried ==
  \E r \in Reqs : pc[r] = "backend" /\ rq[r].cand = NumCandidates /\ rq[r].calls = NumCandidates

\* the result that carries the same fields under the same names in the
\* other shape
OtherShape(result) ==
  [result EXCEPT !.shape = IF result.shape = "dict" THEN "obj" ELSE "dict"]

\* the first candidate that is not empty, in the order given
FirstNonEmpty(values) ==
  IF \E i \in 1 .. Len(values) : Truthy(values[i])
    THEN values[CHOOSE i \in 1 .. Len(values) :
                  Truthy(values[i]) /\ \A j \in 1 .. (i - 1) : ~Truthy(values[j])]
    ELSE NoneV

\* the outcome of the call as a record of ExtractTranscript
Extracted ==
  [raised |-> fnOut.raised, text |-> fnOut.text, language |-> fnOut.language,
   segments |-> fnOut.segments]

\* C27: _extract_transcript takes the text from the first non-empty of
\* text, transcript, utterance, and mapping-shaped and attribute-shaped
\* results that carry the same fields under the same names yield the same
\* (text, language, segments).
C27_SameForBothShapes ==
  (fnOut.done /\ fnIn.result.shape # "str") =>
    /\ fnOut.raised = "none" =>
          fnOut.text = FirstNonEmpty(<< fnIn.result.text, fnIn.result.transcript,
                                        fnIn.result.utterance >>)
    /\ Extracted = ExtractTranscript(OtherShape(fnIn.result))

\* what holds of the code: the two shapes agree on results that need
\* neither utterance nor chunks, and a mapping's text is the first non-empty
\* of the three candidates
C27_SameWithoutLastCandidates ==
  (fnOut.done /\ fnIn.result.shape # "str") =>
    /\ (fnOut.raised = "none" /\ fnIn.result.shape = "dict") =>
          fnOut.text = FirstNonEmpty(<< fnIn.result.text, fnIn.result.transcript,
                                        fnIn.result.utterance >>)
    /\ (~Truthy(fnIn.result.utterance) /\ ~Truthy(fnIn.result.chunks)) =>
          Extracted = ExtractTranscript(OtherShape(fnIn.result))

\* an attribute-shaped result whose only text is under utterance
C27_UtteranceAttribute ==
  /\ fnOut.done /\ fnIn.result.shape = "obj"
  /\ ~Truthy(fnIn.result.text) /\ ~Truthy(fnIn.result.transcript)
  /\ Truthy(fnIn.result.utterance)

\* a call of _warmup_model passes the started check or returns at it
AtStartedCheck(p) == pc[p] = "idle" /\ pc'[p] # "idle"

\* C28: only one warmup runs however often _warmup_model is called: the
\* one caller that finds started unset proceeds and calls _load_model, and
\* every other caller returns without loading and without changing the
\* warmup record.
C28_OneWarmupRuns ==
  [][ /\ wstate.started => wstate'.started
      /\ \A p \in WarmCalls : AtStartedCheck(p) =>
            IF wstate.started
              THEN wstate' = wstate /\ pc'[p] = "done" /\ exc'[p] = NoExc /\ cache' = cache
              ELSE wstate'.started /\ pc'[p] = "lm_fast" ]_vars

\* what holds of the code: one caller alone passes the started check, the
\* others return at it and change nothing; the one that passed calls
\* _load_model when the configuration has a backend
C28_OneCallerPasses ==
  [][ /\ wstate.started => wstate'.started
      /\ \A p \in WarmCalls : AtStartedCheck(p) =>
            IF wstate.started
              THEN wstate' = wstate /\ pc'[p] = "done" /\ exc'[p] = NoExc /\ cache' = cache
              ELSE /\ wstate'.started
                   /\ IF HasBackend(config)
                        THEN pc'[p] = "lm_fast"
                        ELSE pc'[p] = "done" /\ exc'[p].cls = "AttributeError" ]_vars

\* at most one call is inside _load_model at any time
C28_OneLoads ==
  \A p, q \in WarmCalls :
    (pc[p] \in {"lm_fast", "lm_lock", "lm_build", "lm_ret"}
       /\ pc[q] \in {"lm_fast", "lm_lock", "lm_build", "lm_ret"}) => p = q

\* a second call returned at the started check while the first one loads
C28_SecondReturned ==
  \E p, q \in WarmCalls : pc[p] = "lm_build" /\ pc[q] = "closed"

\* C29: in every state of the warmup record, under any interleaving of
\* _warmup_model, reset_warmup_state, set_warmup_completed and
\* set_warmup_error, completed implies started, and completed never holds
\* together with a non-empty error.
C29_RecordConsistent ==
  /\ wstate.completed => wstate.started
  /\ ~(wstate.completed /\ Truthy(wstate.error))

\* what holds of the code: the record is consistent as long as it is
\* written by _warmup_model alone (checked under SpecWarmup), where it is
\* also never both completed and failed, and never failed before started
C29_ConsistentAlone ==
  /\ wstate.completed => wstate.started
  /\ wstate.error # NoneV => wstate.started
  /\ ~(wstate.completed /\ wstate.error # NoneV)

\* the warmup thread has completed after the record was reset under it
C29_CompletedAfterReset ==
  wstate.completed /\ ~wstate.started /\ \E p \in WarmCalls : pc[p] = "done"

\* a transcription request that overrides the backend and nothing else
OnlyBackendGiven ==
  /\ Truthy(rcIn.bo)
  /\ rcIn.mo = NoneV /\ rcIn.dv = NoneV /\ rcIn.co = NoneV

\* C30: after a successful POST /warmup with backend B, a request that
\* overrides only the backend to B resolves to the key that was warmed, so
\* it finds its model in the cache and constructs none.
C30_WarmedKeyIsRequestKey ==
  (rcOut.done /\ OnlyBackendGiven /\ rcIn.bo \in LoadableBackends) =>
    /\ ~rcOut.raised
    /\ rcOut.key = PostWarmupKey(rcIn.cfg, rcIn.bo)

\* what holds of the code: the keys agree when B is the configured backend,
\* whose model, device and compute type both sides take from the
\* configuration
C30_SameBackendKey ==
  (rcOut.done /\ OnlyBackendGiven /\ rcIn.bo \in LoadableBackends
     /\ HasBackend(rcIn.cfg) /\ ~BackendSwitched(rcIn.cfg, rcIn.bo)) =>
    /\ ~rcOut.raised
    /\ rcOut.key = PostWarmupKey(rcIn.cfg, rcIn.bo)

\* a request for another backend than the configured one has been resolved
C30_OtherBackend ==
  /\ rcOut.done /\ ~rcOut.raised /\ OnlyBackendGiven
  /\ rcIn.bo \in LoadableBackends /\ BackendSwitched(rcIn.cfg, rcIn.bo)
  /\ rcOut.key # PostWarmupKey(rcIn.cfg, rcIn.bo)

\* C31: the admission gate is released on every exit path of a request, so
\* (every transcribe_file call terminating) every request that waits at the
\* gate is eventually admitted: a failed request never leaves the gate held.
C31_WaitersAdmitted ==
  /\ [](\A r \in Reqs : pc[r] \in {"done", "closed"} => ~HoldsGate(r))
  /\ [](semValue = SemCapacity - Cardinality({r \in Reqs : HoldsGate(r)}))
  /\ \A r \in Reqs : (pc[r] = "wait") ~> (pc[r] = "resolve")

\* C31 witness: a request has failed and given the gate back while another
\* request waits for it.
C31_Witness ==
  \E a, b \in Reqs :
    /\ pc[a] = "done" /\ status[a] \in {400, 500} /\ Did(a, "release")
    /\ semValue = SemCapacity
    /\ pc[b] = "wait" /\ Head(waiters) = b

\* C32: every handle stored in the model cache is a constructed, non-null
\* model: _load_model inserts no null handle for any backend, so a request
\* that has its handle from the cache has a model.
C32_HandlesNonNull ==
  /\ \A k \in DOMAIN cache : cache[k] # NoHandle
  /\ \A r \in Reqs : pc[r] \in {"duration", "backend"} => ret[r] # NoHandle

\* C32 as it holds: a null handle is stored for mlx-whisper only, and a
\* request goes on to the backend call with a null handle for mlx-whisper
\* only, where the model name is passed in its place.
C32_NullForMlxWhisperOnly ==
  /\ \A k \in DOMAIN cache : cache[k] = NoHandle => k[1] = "mlx-whisper"
  /\ \A r \in Reqs :
       (pc[r] \in {"duration", "backend"} /\ ret[r] = NoHandle) =>
         key[r][1] = "mlx-whisper"

\* C32 witness: a request is in its backend call with the null handle that
\* the cache holds for its mlx-whisper key.
C32_Witness ==
  \E r \in Reqs :
    /\ pc[r] = "backend" /\ InCache(key[r])
    /\ cache[key[r]] = NoHandle /\ ret[r] = NoHandle

\* C33: the cleanup_mode of a returned result names the mode apply_cleanup
\* applied: for every request mode and every process default it is one of
\* none, basic, llm and equals the mode selected inside apply_cleanup.
C33_ReportedIsApplied ==
  (clOut.done /\ clOut.envelope) =>
    /\ clOut.cleanup_mode \in KnownModes
    /\ clOut.cleanup_mode = SelectedMode(clIn.mode, clIn.cfgMode)

\* what holds of the code: the result reports the request's mode as it was
\* given, else the process default as it is; it is the applied mode when
\* that value is already one of the three names in lower case
C33_ReportedAsGiven ==
  (clOut.done /\ clOut.envelope) =>
    /\ clOut.cleanup_mode = OrElse(clIn.mode, clIn.cfgMode)
    /\ SelectedMode(clIn.mode, clIn.cfgMode) \in KnownModes
    /\ clOut.cleanup_mode \in KnownModes =>
          clOut.cleanup_mode = SelectedMode(clIn.mode, clIn.cfgMode)

\* a result built for a mode given in another case
C33_OtherCase ==
  clOut.done /\ clOut.envelope /\ clIn.mode = "BASIC" /\ clOut.cleanup_mode = "BASIC"

====
